---- MODULE Spec2Model ----
(***************************************************************************)
(* NexusFlow: the outbound suggestion pipeline (processOutboundBatch and   *)
(* the batch loop of runAnalysis) of src/unnamed/part_001.                 *)
(*                                                                         *)
(* Strings are sequences of one-character strings.  Markup is a sequence   *)
(* of tokens: a text character, a run of filler text, an opening tag with  *)
(* its attributes, a closing tag or a void tag.  Every token carries the   *)
(* number of characters it takes in the serialized HTML, so that indexOf   *)
(* and length are in characters, as in the code.                           *)
(***************************************************************************)
EXTENDS Integers, Sequences, FiniteSets, TLC

\* ------------------------------------------------------------------ bounds
\* the longest list of suggestions one model response carries
MaxCands == 2
\* the number of inventory batches of one run
MaxBatches == 2

\* ------------------------------------------------------------- characters
Min2(a, b) == IF a < b THEN a ELSE b
Max2(a, b) == IF a > b THEN a ELSE b

\* String.prototype.toLowerCase on one character of the alphabet in use
toLowerCase(c) ==
    CASE c = "A" -> "a" [] c = "F" -> "f" [] c = "O" -> "o"
      [] c = "P" -> "p" [] c = "S" -> "s" [] c = "B" -> "b"
      [] c = "X" -> "x" [] c = "J" -> "j"
      [] OTHER -> c

LowerSeq(s) == [i \in 1..Len(s) |-> toLowerCase(s[i])]

IsSpace(c) == c = " "

RECURSIVE TrimLeft(_)
TrimLeft(s) ==
    IF s # <<>> /\ IsSpace(Head(s)) THEN TrimLeft(Tail(s)) ELSE s

RECURSIVE TrimRight(_)
TrimRight(s) ==
    IF s # <<>> /\ IsSpace(s[Len(s)]) THEN TrimRight(SubSeq(s, 1, Len(s) - 1)) ELSE s

\* String.prototype.trim
Trim(s) == TrimRight(TrimLeft(s))

\* ----------------------------------------------------------------- tokens
Attr(name, val) == [name |-> name, val |-> val]

RECURSIVE AttrsWidth(_)
AttrsWidth(at) ==
    IF at = <<>> THEN 0
    ELSE 1 + Len(Head(at).name) + 2 + Len(Head(at).val) + 1 + AttrsWidth(Tail(at))

Ch(c) == [k |-> "ch", v |-> c, at |-> <<>>, w |-> 1]
Pad(n) == [k |-> "pad", v |-> ".", at |-> <<>>, w |-> n]
Open(tag, at) == [k |-> "open", v |-> tag, at |-> at, w |-> 2 + Len(tag) + AttrsWidth(at)]
Close(tag) == [k |-> "close", v |-> tag, at |-> <<>>, w |-> 3 + Len(tag)]
Void(tag, at) == [k |-> "void", v |-> tag, at |-> at, w |-> 2 + Len(tag) + AttrsWidth(at)]

Str(s) == [i \in 1..Len(s) |-> Ch(s[i])]

IsTag(t) == t.k \in {"open", "close", "void"}
IsText(t) == t.k \in {"ch", "pad"}

\* the characters of a run of text tokens (a filler run counts as one ".")
Chars(h) == [i \in 1..Len(h) |-> h[i].v]

RECURSIVE WidthBetween(_, _, _)
\* the characters taken by the tokens lo..hi of h
WidthBetween(h, lo, hi) ==
    IF lo > hi THEN 0
    ELSE IF lo = hi THEN h[lo].w
    ELSE WidthBetween(h, lo, (lo + hi) \div 2) + WidthBetween(h, (lo + hi) \div 2 + 1, hi)

\* the characters taken by the first n tokens of h
WidthTo(h, n) == WidthBetween(h, 1, n)

\* String.prototype.length of serialized markup
Width(h) == WidthTo(h, Len(h))

\* String.prototype.includes / indexOf on sequences; 0 when absent, else the
\* 1-based position of the first occurrence
MatchAt(h, pat, i) ==
    /\ i + Len(pat) - 1 <= Len(h)
    /\ \A j \in 1..Len(pat) : h[i + j - 1] = pat[j]

\* the first position at which pat stands in h, 0 when there is none
FirstIndex(h, pat) ==
    LET hits == {i \in 1..(Len(h) - Len(pat) + 1) : MatchAt(h, pat, i)}
    IN  IF hits = {} THEN 0 ELSE CHOOSE i \in hits : \A j \in hits : i <= j

Includes(h, pat) == FirstIndex(h, pat) # 0

\* String.prototype.indexOf in characters: -1 when absent
indexOf(h, pat) ==
    LET i == FirstIndex(h, pat)
    IN  IF i = 0 THEN -1 ELSE WidthTo(h, i - 1)

\* -------------------------------------------------------------------- URLs
\* the longest prefix of s holding no character of stops
RECURSIVE TakeUntil(_, _)
TakeUntil(s, stops) ==
    IF s = <<>> \/ Head(s) \in stops THEN <<>>
    ELSE <<Head(s)>> \o TakeUntil(Tail(s), stops)

HttpScheme == <<"h", "t", "t", "p", ":", "/", "/">>

\* new URL(urlString) parses (does not throw): an http URL with a host.
\* Strings without a scheme make the constructor throw.
UrlParses(u) ==
    /\ Len(u) > Len(HttpScheme)
    /\ LowerSeq(SubSeq(u, 1, Len(HttpScheme))) = HttpScheme
    /\ u[Len(HttpScheme) + 1] \notin {"/", "?", "#"}

UrlHost(u) == TakeUntil(SubSeq(u, Len(HttpScheme) + 1, Len(u)), {"/", "?", "#"})

\* URL.origin: scheme and host, the host lower-cased by the parser
UrlOrigin(u) == HttpScheme \o LowerSeq(UrlHost(u))

\* URL.pathname: the path up to the query or fragment, "/" when empty
UrlPathname(u) ==
    LET rest == SubSeq(u, Len(HttpScheme) + Len(UrlHost(u)) + 1, Len(u))
        path == TakeUntil(rest, {"?", "#"})
    IN  IF path = <<>> THEN <<"/">> ELSE path

\* the URL has a scheme: letters up to a colon before any path, query or hash
HasScheme(href) ==
    LET pre == TakeUntil(href, {":", "/", "?", "#"})
    IN  pre # <<>> /\ Len(pre) < Len(href) /\ href[Len(pre) + 1] = ":"

\* new URL(urlString) of a URL with another scheme than http(s), such as
\* javascript: or mailto: : it parses, its origin is "null" and its pathname is
\* what follows the colon up to the query or fragment
IsOpaqueUrl(u) ==
    /\ HasScheme(u)
    /\ LowerSeq(TakeUntil(u, {":"})) \notin {<<"h", "t", "t", "p">>, <<"h", "t", "t", "p", "s">>}

NullOrigin == <<"n", "u", "l", "l">>

OpaquePathname(u) ==
    TakeUntil(SubSeq(u, Len(TakeUntil(u, {":"})) + 2, Len(u)), {"?", "#"})

\* mutant of normalizeUrl: the path keeps its letter case and trailing slash
normalizeUrlKeepCase(u) ==
    IF u = <<>> THEN <<>>
    ELSE IF UrlParses(u) THEN UrlOrigin(u) \o UrlPathname(u)
    ELSE IF IsOpaqueUrl(u) THEN NullOrigin \o OpaquePathname(u)
    ELSE TakeUntil(u, {"?"})

normalizeUrl(u) ==
    IF u = <<>> THEN <<>>
    ELSE IF UrlParses(u)
    THEN LET lower == LowerSeq(UrlPathname(u))
             pathname == IF Len(lower) > 1 /\ lower[Len(lower)] = "/"
                         THEN SubSeq(lower, 1, Len(lower) - 1) ELSE lower
         IN  LowerSeq(UrlOrigin(u)) \o pathname
    ELSE IF IsOpaqueUrl(u)
    THEN LET lower == LowerSeq(OpaquePathname(u))
             pathname == IF Len(lower) > 1 /\ lower[Len(lower)] = "/"
                         THEN SubSeq(lower, 1, Len(lower) - 1) ELSE lower
         IN  NullOrigin \o pathname
    ELSE LET first == TakeUntil(LowerSeq(u), {"?"})
         IN  IF first # <<>> /\ first[Len(first)] = "/"
             THEN SubSeq(first, 1, Len(first) - 1) ELSE first

\* ------------------------------------------------------------ the alphabet
sp == <<" ">>
wOur == <<"O", "u", "r">>
wour == <<"o", "u", "r">>
wplans == <<"p", "l", "a", "n", "s">>
wPlans == <<"P", "l", "a", "n", "s">>
ware == <<"a", "r", "e">>
wfair == <<"f", "a", "i", "r">>
wSee == <<"S", "e", "e">>
wthe == <<"t", "h", "e">>
wfees == <<"f", "e", "e", "s">>
wFees == <<"F", "e", "e", "s">>
wnow == <<"n", "o", "w">>
wand == <<"a", "n", "d">>
where == <<"h", "e", "r", "e">>
wteam == <<"t", "e", "a", "m">>
wdocs == <<"d", "o", "c", "s">>
wBuy == <<"B", "u", "y">>
wok == <<"o", "k">>

RECURSIVE Words(_)
\* the words joined by single spaces
Words(ws) ==
    IF ws = <<>> THEN <<>>
    ELSE IF Len(ws) = 1 THEN Head(ws)
    ELSE Head(ws) \o sp \o Words(Tail(ws))

TextPlansFair == Words(<<wOur, wplans, ware, wfair>>)
TextFees == Words(<<wSee, wthe, wfees, wnow>>)
TextPlansHere == Words(<<wPlans, wand, wplans, where>>)
TextTeam == Words(<<wSee, wour, wteam, wnow>>)
TextDocs == Words(<<wSee, wthe, wdocs, wnow>>)
TextLinked == Words(<<wSee, wour, wplans, wnow, wok>>)
TextShort == Words(<<wBuy, wplans>>)

urlPl == <<"/", "p", "l">>
urlTeam == <<"/", "t", "e", "a", "m">>
urlTeamSlash == urlTeam \o <<"/">>
urlTeamSlash2 == urlTeamSlash \o <<"/">>
urlFees == <<"/", "F", "e", "e", "s", "/">>
urlFeesLower == <<"/", "f", "e", "e", "s">>
urlFeesQuery == urlFeesLower \o <<"?", "q">>
urlAbs == HttpScheme \o <<"x", "/", "A">>
urlAbsSlash == HttpScheme \o <<"X", "/", "a", "/">>
urlDocs == <<"/", "d", "o", "c", "s">>
urlScript == <<"j", "a", "v", "a", "s", "c", "r", "i", "p", "t", ":", "x">>

\* -------------------------------------------------------------- documents
P(text) == <<Open("p", <<>>)>> \o Str(text) \o <<Close("p")>>

DocHead == <<Open("html", <<>>), Open("head", <<>>), Close("head"), Open("body", <<>>)>>
DocTail == <<Close("body"), Close("html")>>

\* four plain paragraphs 50, 250 and 249 characters apart
DocPlain ==
    DocHead
    \o P(TextPlansFair) \o <<Pad(50)>>
    \o P(TextFees) \o <<Pad(250)>>
    \o P(TextPlansHere) \o <<Pad(249)>>
    \o P(TextTeam)
    \o DocTail

\* boilerplate, attributes, an embedded image, an existing link, a short list
\* item, a paragraph wrapped in a container of the same text and a last
\* paragraph, the texts 300 characters apart
DocMarkup ==
    DocHead
    \o <<Open("nav", <<>>), Open("div", <<>>)>> \o Str(TextDocs) \o <<Close("div"), Close("nav")>>
    \o <<Open("div", <<Attr("class", <<"p", "o", "s", "t">>)>>)>>
    \o <<Open("p", <<Attr("class", <<"l", "e", "a", "d">>)>>)>> \o Str(TextPlansFair)
    \o <<Void("img", <<Attr("src", <<"x">>), Attr("onerror", <<"y">>)>>), Close("p"), Pad(300)>>
    \o <<Open("p", <<>>)>> \o Str(wSee \o sp)
    \o <<Open("a", <<Attr("href", urlPl), Attr("title", <<"t">>)>>)>> \o Str(wour \o sp \o wplans)
    \o <<Close("a")>> \o Str(sp \o wnow \o sp \o wok) \o <<Close("p"), Pad(300)>>
    \o <<Open("ul", <<>>), Open("li", <<>>)>> \o Str(TextShort) \o <<Close("li"), Close("ul"), Pad(300)>>
    \o <<Open("div", <<>>)>> \o P(TextFees) \o <<Close("div"), Pad(300)>>
    \o P(TextTeam)
    \o <<Close("div")>>
    \o DocTail

Docs == <<DocPlain, DocMarkup>>
DocIds == DOMAIN Docs

\* -------------------------------------------------------------------- DOM
RECURSIVE DepthsFrom(_, _, _, _)
\* the nesting depth after each of the tokens lo..hi, d0 being the depth before
DepthsFrom(h, lo, hi, d0) ==
    IF lo > hi THEN <<>>
    ELSE IF lo = hi
         THEN <<IF h[lo].k = "open" THEN d0 + 1 ELSE IF h[lo].k = "close" THEN d0 - 1 ELSE d0>>
         ELSE LET left == DepthsFrom(h, lo, (lo + hi) \div 2, d0)
              IN  left \o DepthsFrom(h, (lo + hi) \div 2 + 1, hi, left[Len(left)])

Depths(h) == DepthsFrom(h, 1, Len(h), 0)

\* the closing tag of the element opened at token i of well-formed markup h
MatchClose(h, i) ==
    LET D == Depths(h)
    IN  CHOOSE j \in (i + 1)..Len(h) :
            /\ D[j] = D[i] - 1
            /\ \A m \in (i + 1)..(j - 1) : D[m] >= D[i]

\* Element.outerHTML, innerHTML, textContent of the element opened at i
outerHTML(h, i) == SubSeq(h, i, MatchClose(h, i))
innerHTML(h, i) == SubSeq(h, i + 1, MatchClose(h, i) - 1)
textContent(h, i) == SelectSeq(innerHTML(h, i), IsText)

\* querySelectorAll over tag names: the opening positions, in document order
\* querySelectorAll over tag names: the opening positions, in document order
querySelectorAll(h, tags) ==
    LET hits == {i \in DOMAIN h : h[i].k = "open" /\ h[i].v \in tags}
    IN  [n \in 1..Cardinality(hits) |->
            CHOOSE i \in hits : Cardinality({j \in hits : j <= i}) = n]

BlockTags == {"p", "li", "td", "div"}

\* Element.getAttributeNames / removeAttribute: only href is kept
KeepHref(at) == SelectSeq(at, LAMBDA a : a.name = "href")

bannedTags == {"img", "video", "audio", "iframe", "object", "embed", "picture", "svg",
               "script", "style", "link", "meta", "input", "form", "button"}

\* root.querySelectorAll(selectors).forEach(el => el.remove()): every element
\* of a listed tag goes with its whole subtree
RemoveTags(h, tags) ==
    LET gone == {i \in DOMAIN h :
                    \/ h[i].k = "void" /\ h[i].v \in tags
                    \/ \E j \in 1..i : /\ h[j].k = "open"
                                       /\ h[j].v \in tags
                                       /\ i <= MatchClose(h, j)}
        kept == DOMAIN h \ gone
    IN  [n \in 1..Cardinality(kept) |->
            h[CHOOSE i \in kept : Cardinality({j \in kept : j <= i}) = n]]

\* clone.querySelectorAll(bannedTags.join(',')).forEach(el => el.remove())
RemoveBanned(h) == RemoveTags(h, bannedTags)

\* mutant of StripAttributes: the attributes are left in place
StripAttributesNone(h) == h

\* allEls.forEach: every attribute other than href is removed
StripAttributes(h) ==
    [i \in 1..Len(h) |->
        IF h[i].k = "open" THEN Open(h[i].v, KeepHref(h[i].at))
        ELSE IF h[i].k = "void" THEN Void(h[i].v, KeepHref(h[i].at))
        ELSE h[i]]

RECURSIVE Flatten(_, _, _)
\* the concatenation of pieces[lo..hi]
Flatten(pieces, lo, hi) ==
    IF lo > hi THEN <<>>
    ELSE IF lo = hi THEN pieces[lo]
    ELSE Flatten(pieces, lo, (lo + hi) \div 2) \o Flatten(pieces, (lo + hi) \div 2 + 1, hi)

\* the HTML parser on the assigned inner markup: an <a> start tag inside an
\* open <a> closes the open one, an end tag with no open <a> is ignored, and
\* an <a> left open is closed at the end
ParseNestedA(h, inA) ==
    LET IsA(t) == t.k \in {"open", "close"} /\ t.v = "a"
        openBefore == [i \in 1..(Len(h) + 1) |->
                          LET prev == {j \in 1..(i - 1) : IsA(h[j])}
                          IN  IF prev = {} THEN inA
                              ELSE h[CHOOSE j \in prev : \A n \in prev : n <= j].k = "open"]
        pieces == [i \in 1..(Len(h) + 1) |->
                      IF i > Len(h)
                      THEN IF openBefore[i] THEN <<Close("a")>> ELSE <<>>
                      ELSE IF h[i].k = "open" /\ h[i].v = "a"
                           THEN IF openBefore[i] THEN <<Close("a"), h[i]>> ELSE <<h[i]>>
                           ELSE IF h[i].k = "close" /\ h[i].v = "a"
                                THEN IF openBefore[i] THEN <<h[i]>> ELSE <<>>
                                ELSE <<h[i]>>]
    IN  Flatten(pieces, 1, Len(h) + 1)

\* clone.innerHTML = newInnerHtml
setInnerHTML(h) == ParseNestedA(h, FALSE)

\* ------------------------------------------------------ the reduced content
ContentRootTags == {"main", "article"}
ContentRootClasses == {<<"p", "o", "s", "t">>}

IsContentRoot(t) ==
    /\ t.k = "open"
    /\ \/ t.v \in ContentRootTags
       \/ \E i \in DOMAIN t.at : t.at[i].name = "class" /\ t.at[i].val \in ContentRootClasses

\* fullDoc.querySelector('main, article, ..., .post, ...') || fullDoc.body
ContentRoot(h) ==
    IF \E i \in DOMAIN h : IsContentRoot(h[i])
    THEN CHOOSE i \in DOMAIN h : IsContentRoot(h[i]) /\ \A j \in 1..(i - 1) : ~IsContentRoot(h[j])
    ELSE CHOOSE i \in DOMAIN h : h[i].k = "open" /\ h[i].v = "body"

RemovedTags == {"script", "style", "svg", "video", "audio", "iframe", "img", "noscript",
                "nav", "header", "footer", "aside"}

\* only href and id survive the cleaning of the prompt content
KeepHrefId(at) == SelectSeq(at, LAMBDA a : a.name \in {"href", "id"})

CleanCap == 40000

\* the longest run of leading tokens within n characters
TakeWidth(h, n) ==
    IF Width(h) <= n THEN h
    ELSE SubSeq(h, 1, CHOOSE k \in 0..(Len(h) - 1) :
                         WidthTo(h, k) <= n /\ WidthTo(h, k + 1) > n)

cleanHtmlContent(h) ==
    LET kept == RemoveTags(h, RemovedTags)
        cleaned == [i \in 1..Len(kept) |->
                      IF kept[i].k = "open" THEN Open(kept[i].v, KeepHrefId(kept[i].at))
                      ELSE IF kept[i].k = "void" THEN Void(kept[i].v, KeepHrefId(kept[i].at))
                      ELSE kept[i]]
        fallbackText == SelectSeq(h, IsText)
    IN  IF (\A i \in DOMAIN cleaned : cleaned[i].k = "ch" /\ IsSpace(cleaned[i].v))
           /\ fallbackText # <<>>
        THEN fallbackText
        ELSE IF Width(cleaned) > CleanCap
             THEN TakeWidth(cleaned, CleanCap) \o Str(<<".", ".", ".">>)
             ELSE cleaned

\* cleanArticleHtml of runAnalysis: the content sent to the model
CleanArticleHtml == [d \in DocIds |-> cleanHtmlContent(innerHTML(Docs[d], ContentRoot(Docs[d])))]

\* ------------------------------------------------------- in-content links
\* NAV_SELECTORS: the tags, roles, classes and ids of boilerplate containers
NavTags == {"nav", "header", "footer", "aside"}
NavRoles == {
    <<"n", "a", "v", "i", "g", "a", "t", "i", "o", "n">>, <<"b", "a", "n", "n", "e", "r">>, <<"c", "o", "n", "t", "e", "n", "t", "i", "n", "f", "o">> }
NavClasses == {
    <<"n", "a", "v">>, <<"n", "a", "v", "i", "g", "a", "t", "i", "o", "n">>, <<"m", "e", "n", "u">>,
    <<"s", "i", "d", "e", "b", "a", "r">>, <<"b", "r", "e", "a", "d", "c", "r", "u", "m", "b", "s">>, <<"b", "r", "e", "a", "d", "c", "r", "u", "m", "b">>,
    <<"p", "a", "g", "i", "n", "a", "t", "i", "o", "n">>, <<"s", "i", "t", "e", "-", "h", "e", "a", "d", "e", "r">>, <<"s", "i", "t", "e", "-", "f", "o", "o", "t", "e", "r">>,
    <<"w", "i", "d", "g", "e", "t", "-", "a", "r", "e", "a">>, <<"a", "d", "-", "c", "o", "n", "t", "a", "i", "n", "e", "r">>, <<"e", "n", "t", "r", "y", "-", "m", "e", "t", "a">>,
    <<"p", "o", "s", "t", "-", "m", "e", "t", "a">>, <<"c", "a", "t", "-", "l", "i", "n", "k", "s">>, <<"t", "a", "g", "s", "-", "l", "i", "n", "k", "s">>,
    <<"m", "e", "t", "a", "d", "a", "t", "a">>, <<"p", "o", "s", "t", "-", "i", "n", "f", "o">>, <<"b", "r", "e", "a", "d", "c", "r", "u", "m", "b", "-", "t", "r", "a", "i", "l">> }
NavIds == {
    <<"s", "i", "d", "e", "b", "a", "r">>, <<"m", "e", "n", "u">>, <<"n", "a", "v">> }

\* EXCLUDED_URL_PATTERNS: the substrings and the file extensions
ExcludedSubstrings == {
    <<"/", "t", "a", "g", "/">>, <<"/", "c", "a", "t", "e", "g", "o", "r", "y", "/">>, <<"/", "a", "u", "t", "h", "o", "r", "/">>,
    <<"/", "p", "a", "g", "e", "/">>, <<"/", "f", "e", "e", "d", "/">>, <<"/", "w", "p", "-", "j", "s", "o", "n", "/">>,
    <<"/", "w", "p", "-", "a", "d", "m", "i", "n", "/">>, <<"/", "w", "p", "-", "c", "o", "n", "t", "e", "n", "t", "/">>, <<"/", "w", "p", "-", "i", "n", "c", "l", "u", "d", "e", "s", "/">>,
    <<"p", "r", "i", "v", "a", "c", "y", "-", "p", "o", "l", "i", "c", "y">>, <<"t", "e", "r", "m", "s", "-", "o", "f", "-", "s", "e", "r", "v", "i", "c", "e">>, <<"t", "e", "r", "m", "s", "-", "c", "o", "n", "d", "i", "t", "i", "o", "n", "s">>,
    <<"d", "i", "s", "c", "l", "a", "i", "m", "e", "r">>, <<"c", "o", "o", "k", "i", "e", "-", "p", "o", "l", "i", "c", "y">>, <<"l", "o", "g", "i", "n">>,
    <<"s", "i", "g", "n", "u", "p">>, <<"r", "e", "g", "i", "s", "t", "e", "r">>, <<"c", "a", "r", "t">>,
    <<"c", "h", "e", "c", "k", "o", "u", "t">>, <<"a", "c", "c", "o", "u", "n", "t">>, <<"p", "r", "o", "f", "i", "l", "e">>,
    <<"s", "e", "a", "r", "c", "h">> }
ExcludedExtensions == {
    <<".", "p", "d", "f">>, <<".", "j", "p", "g">>, <<".", "j", "p", "e", "g">>, <<".", "p", "n", "g">>,
    <<".", "g", "i", "f">>, <<".", "s", "v", "g">>, <<".", "c", "s", "s">>, <<".", "j", "s">>,
    <<".", "j", "s", "o", "n">>, <<".", "x", "m", "l">>, <<".", "t", "x", "t">> }

\* Element.getAttribute(name): the value of the first attribute of that name,
\* <<>> when there is none (null and the empty string are treated alike here)
getAttribute(t, name) ==
    LET hits == {i \in DOMAIN t.at : t.at[i].name = name}
    IN  IF hits = {} THEN <<>> ELSE t.at[CHOOSE i \in hits : \A j \in hits : i <= j].val

\* String.prototype.includes / startsWith / endsWith on character sequences
StrIncludes(s, pat) == \E i \in 1..(Len(s) - Len(pat) + 1) : SubSeq(s, i, i + Len(pat) - 1) = pat
StartsWith(s, pat) == Len(s) >= Len(pat) /\ SubSeq(s, 1, Len(pat)) = pat
EndsWith(s, pat) == Len(s) >= Len(pat) /\ SubSeq(s, Len(s) - Len(pat) + 1, Len(s)) = pat

\* Element.classList: the white-space separated words of the class attribute
ClassList(t) ==
    LET c == getAttribute(t, "class")
        ends == {q \in (DOMAIN c) \X (DOMAIN c) :
                    /\ q[1] <= q[2]
                    /\ \A n \in q[1]..q[2] : ~IsSpace(c[n])
                    /\ (q[1] = 1 \/ IsSpace(c[q[1] - 1]))
                    /\ (q[2] = Len(c) \/ IsSpace(c[q[2] + 1]))}
    IN  {SubSeq(c, q[1], q[2]) : q \in ends}

\* the element matches one of NAV_SELECTORS
IsNav(t) ==
    \/ t.v \in NavTags
    \/ getAttribute(t, "role") \in NavRoles
    \/ ClassList(t) \cap NavClasses # {}
    \/ getAttribute(t, "id") \in NavIds

HeadingTags == {"h1", "h2", "h3", "h4", "h5", "h6"}

\* the element opened at i and its ancestors in h
SelfAndAncestors(h, i) ==
    LET D == Depths(h)
    IN  {j \in 1..i : h[j].k = "open" /\ \A m \in j..i : D[m] >= D[j]}

\* EXCLUDED_URL_PATTERNS.some(p => p.test(href.toLowerCase()))
IsExcludedUrl(href) ==
    LET lower == LowerSeq(href)
    IN  \/ \E p \in ExcludedSubstrings : StrIncludes(lower, p)
        \/ \E e \in ExcludedExtensions : EndsWith(lower, e)

\* new URL(href, mainArticleUrl).origin; "null" for a scheme without origin,
\* <<>> when the constructor throws
ResolvedOrigin(href, base) ==
    IF UrlParses(href) THEN UrlOrigin(href)
    ELSE IF HasScheme(href)
         THEN IF IsOpaqueUrl(href) THEN NullOrigin ELSE <<>>
    ELSE IF StartsWith(href, <<"/", "/">>)
         THEN IF Len(href) > 2 /\ href[3] \notin {"/", "?", "#"}
              THEN <<"h", "t", "t", "p", ":">> \o LowerSeq(TakeUntil(href, {"?", "#"}))
              ELSE <<>>
    ELSE UrlOrigin(base)

\* getInContentLinks: the positions of the links of the content root that pass
\* the filter, in document order
getInContentLinks(h, mainArticleUrl) ==
    LET root == ContentRoot(h)
        mainOrigin == IF mainArticleUrl # <<>> THEN UrlOrigin(mainArticleUrl) ELSE <<>>
        keep(i) ==
            LET href == getAttribute(h[i], "href")
                rel == getAttribute(h[i], "rel")
            IN  /\ \A j \in SelfAndAncestors(h, i) : ~IsNav(h[j])
                /\ \A j \in SelfAndAncestors(h, i) : h[j].v \notin HeadingTags
                /\ ClassList(h[i]) \cap {<<"b", "t", "n">>, <<"b", "u", "t", "t", "o", "n">>} = {}
                /\ getAttribute(h[i], "role") # <<"b", "u", "t", "t", "o", "n">>
                /\ href # <<>>
                /\ href[1] # "#"
                /\ ~IsExcludedUrl(href)
                /\ ~StrIncludes(rel, <<"t", "a", "g">>)
                /\ ~StrIncludes(rel, <<"c", "a", "t", "e", "g", "o", "r", "y">>)
                /\ IF mainOrigin # <<>>
                   THEN ResolvedOrigin(href, mainArticleUrl) = mainOrigin
                   ELSE \/ href[1] = "/"
                        \/ ~(\/ StartsWith(href, <<"/", "/">>)
                             \/ StartsWith(href, HttpScheme)
                             \/ StartsWith(href, <<"h", "t", "t", "p", "s", ":", "/", "/">>))
        links == {i \in (root + 1)..(MatchClose(h, root) - 1) :
                     h[i].k = "open" /\ h[i].v = "a" /\ keep(i)}
    IN  [n \in 1..Cardinality(links) |->
            CHOOSE i \in links : Cardinality({j \in links : j <= i}) = n]

\* the address each article was fetched from; <<>> for pasted markup
MainArticleUrl == << <<>>, HttpScheme \o <<"x", "/", "p">> >>

\* cleanArticleHtml.replace(/<[^>]+>/g, ' ').split(/\s+/).filter(w => w.length > 0).length
WordCount(h) ==
    Cardinality({i \in DOMAIN h :
                    /\ IsText(h[i]) /\ ~IsSpace(h[i].v)
                    /\ (i = 1 \/ IsTag(h[i - 1]) \/ IsSpace(h[i - 1].v))})

\* ----------------------------------------------------------- the inventory
ParsedArticles ==
    << [url |-> urlPl, isMoneyPage |-> TRUE, isStrategicPage |-> FALSE],
       [url |-> urlTeamSlash, isMoneyPage |-> FALSE, isStrategicPage |-> TRUE],
       [url |-> urlFees, isMoneyPage |-> FALSE, isStrategicPage |-> FALSE],
       [url |-> urlAbs, isMoneyPage |-> TRUE, isStrategicPage |-> TRUE] >>

\* parsedArticles.find(a => normalizeUrl(a.url) === normTarget); 0 when none
FindArticle(normTarget) ==
    LET hits == {i \in DOMAIN ParsedArticles : normalizeUrl(ParsedArticles[i].url) = normTarget}
    IN  IF hits = {} THEN 0 ELSE CHOOSE i \in hits : \A j \in hits : i <= j

\* --------------------------------------------------- the model's response
StrategyArrow == "Awareness -> Consideration"

Cand(anchor, target, para, withLink, score, paa, tag) ==
    [anchor_text |-> anchor, target_url |-> target, original_paragraph |-> para,
     paragraph_with_link |-> withLink, internal_link_score |-> score,
     is_paa_match |-> paa, strategy_tag |-> tag,
     isMoneyPage |-> FALSE, isStrategicPage |-> FALSE]

\* the suggestions the model may return for a batch (untrusted)
CandPool ==
    << Cand(wplans, urlPl, Str(TextPlansFair), Str(TextPlansFair), 85, FALSE, ""),
       Cand(wFees, urlFees, Str(TextFees), Str(TextFees), 80, FALSE, StrategyArrow),
       Cand(wplans \o sp, urlTeam, Str(TextPlansHere), Str(TextPlansHere), 80, FALSE, ""),
       Cand(sp \o wteam, urlFeesLower, Str(sp \o TextTeam \o sp), Str(TextTeam), 78, FALSE, ""),
       Cand(wplans, urlAbs, Str(TextLinked), Str(TextLinked), 80, TRUE, ""),
       Cand(wour \o sp \o wplans, urlAbsSlash, Str(TextLinked), Str(TextLinked), 97, TRUE, ""),
       Cand(wfees, urlTeamSlash2, P(TextFees), P(TextFees), 60, FALSE, ""),
       Cand(wplans, urlFeesQuery, Str(TextShort), Str(TextShort), 50, FALSE, ""),
       Cand(wdocs, urlDocs, Str(TextDocs), <<>>, 40, FALSE, ""),
       Cand(wdocs, urlDocs, Str(TextDocs), Str(TextDocs), 70, FALSE, "") >>

PoolIds == DOMAIN CandPool

\* the suggestions of the pool the model may return for each article
DocPool == << {1, 2, 3, 4, 5, 7, 9}, {1, 4, 5, 6, 7, 8, 10} >>

\* ------------------------------------------------- processOutboundBatch
MinParagraphLength == 10
MIN_SUGGESTION_DISTANCE_CHARS == 250
MaxScore == 100

\* validNew: a suggestion lacking a required field is dropped
IsValidNew(s) ==
    /\ s.anchor_text # <<>>
    /\ s.target_url # <<>>
    /\ s.original_paragraph # <<>>
    /\ s.paragraph_with_link # <<>>

BoostedScore(s, isMoney, isStrategic) ==
    Min2(MaxScore,
         s.internal_link_score
           + (IF s.is_paa_match THEN 15 ELSE IF isMoney THEN 10 ELSE IF isStrategic THEN 8 ELSE 0))

BoostedStrategy(s, isMoney, isStrategic) ==
    LET strategy == IF s.strategy_tag = "" THEN "Related" ELSE s.strategy_tag
        arrow == strategy = StrategyArrow
    IN  IF s.is_paa_match THEN "Google Verified"
        ELSE IF isMoney
             THEN IF arrow THEN strategy \o " | Money Page" ELSE "Demand Gen (Money Page)"
             ELSE IF isStrategic
                  THEN IF arrow THEN strategy \o " | Strategic" ELSE "Authority (Strategic Page)"
                  ELSE strategy

\* scoredNew: one element of the map
ScoreSuggestion(s) ==
    LET a == FindArticle(normalizeUrl(s.target_url))
        isMoney == a # 0 /\ ParsedArticles[a].isMoneyPage
        isStrategic == a # 0 /\ ParsedArticles[a].isStrategicPage
    IN  [s EXCEPT !.internal_link_score = BoostedScore(s, isMoney, isStrategic),
                  !.strategy_tag = BoostedStrategy(s, isMoney, isStrategic),
                  !.isMoneyPage = isMoney,
                  !.isStrategicPage = isStrategic]

\* s.original_paragraph.replace(/<[^>]+>/g, '').trim()
CleanText(para) == Trim(Chars(SelectSeq(para, IsText)))

\* tempDoc.querySelectorAll('p, li, td, div') with each element's markup and text
AllParagraphs(h) ==
    LET els == querySelectorAll(h, BlockTags)
    IN  [k \in 1..Len(els) |->
            [pos |-> els[k],
             tag |-> h[els[k]].v,
             at |-> h[els[k]].at,
             text |-> textContent(h, els[k]),
             inner |-> innerHTML(h, els[k]),
             outer |-> outerHTML(h, els[k])]]

TempDoc == [d \in DocIds |-> AllParagraphs(Docs[d])]

RECURSIVE LocateLoopFirstMatch(_, _, _, _, _)
\* mutant of LocateLoop: the first containing node wins, whatever its length
LocateLoopFirstMatch(els, k, cleanText, found, minLength) ==
    IF k > Len(els) THEN found
    ELSE IF Includes(els[k].text, Str(cleanText)) /\ found = 0
         THEN LocateLoopFirstMatch(els, k + 1, cleanText, k, Width(els[k].text))
         ELSE LocateLoopFirstMatch(els, k + 1, cleanText, found, minLength)

RECURSIVE LocateLoop(_, _, _, _, _)
\* for (const el of allParagraphs): the index of foundElement, 0 for null;
\* found = 0 stands for minLength = Infinity
LocateLoop(els, k, cleanText, found, minLength) ==
    IF k > Len(els) THEN found
    ELSE IF Includes(els[k].text, Str(cleanText))
            /\ (found = 0 \/ Width(els[k].text) < minLength)
         THEN LocateLoop(els, k + 1, cleanText, k, Width(els[k].text))
         ELSE LocateLoop(els, k + 1, cleanText, found, minLength)

\* the locator of one suggestion: 0 when it is skipped or nothing contains it
FoundElement(els, s) ==
    LET cleanText == CleanText(s.original_paragraph)
    IN  IF Len(cleanText) < MinParagraphLength THEN 0
        ELSE LocateLoop(els, 1, cleanText, 0, 0)

\* new RegExp(`(?<!href=["']|>)(${escapedAnchor})(?![^<]*>)`, 'i') at token i.
\* The anchor matches text characters whatever their letter case; the
\* lookbehind rejects a match that directly follows a tag (its '>'); the
\* lookahead rejects a match inside a tag, which no text token is.
RegexMatchAt(inner, anchor, i) ==
    /\ i + Len(anchor) - 1 <= Len(inner)
    /\ \A j \in 1..Len(anchor) :
          /\ inner[i + j - 1].k = "ch"
          /\ toLowerCase(inner[i + j - 1].v) = toLowerCase(anchor[j])
    /\ (i = 1 \/ ~IsTag(inner[i - 1]))

\* the position String.prototype.replace substitutes: the first match, 0 if none
RegexFirstMatch(inner, anchor) ==
    LET hits == {i \in DOMAIN inner : RegexMatchAt(inner, anchor, i)}
    IN  IF hits = {} THEN 0 ELSE CHOOSE i \in hits : \A j \in hits : i <= j

\* `<a href="${s.target_url}">${s.anchor_text}</a>`
AnchorHtml(s) ==
    <<Open("a", <<Attr("href", s.target_url)>>)>> \o Str(s.anchor_text) \o <<Close("a")>>

\* newInnerHtml.replace(regex, anchorHtml)
ReplaceAt(inner, m, n, with) ==
    SubSeq(inner, 1, m - 1) \o with \o SubSeq(inner, m + n, Len(inner))

\* clone.outerHTML after the cleaning of the clone and of its root
CleanedClone(el, newInnerHtml) ==
    <<Open(el.tag, KeepHref(el.at))>>
    \o StripAttributes(RemoveBanned(setInnerHTML(newInnerHtml)))
    \o <<Close(el.tag)>>

\* the body of `for (const s of scoredNew)` for one suggestion:
\* found = index of foundElement (0 = none), at = where the anchor was
\* substituted (0 = regex.test failed), s = the suggestion as the loop leaves it
MapSuggestion(els, s) ==
    LET k == FoundElement(els, s)
    IN  IF k = 0 THEN [found |-> 0, at |-> 0, s |-> s]
        ELSE LET el == els[k]
                 m == RegexFirstMatch(el.inner, s.anchor_text)
                 s1 == [s EXCEPT !.original_paragraph = el.outer]
             IN  IF m = 0 THEN [found |-> k, at |-> 0, s |-> s1]
                 ELSE [found |-> k, at |-> m,
                       s |-> [s1 EXCEPT !.paragraph_with_link =
                                CleanedClone(el, ReplaceAt(el.inner, m, Len(s.anchor_text),
                                                           AnchorHtml(s)))]]

\* what the pipeline does with each suggestion of the pool in each document
Placement ==
    [d \in DocIds |->
        [c \in PoolIds |->
            IF IsValidNew(CandPool[c])
            THEN [valid |-> TRUE] @@ MapSuggestion(TempDoc[d], ScoreSuggestion(CandPool[c]))
            ELSE [valid |-> FALSE, found |-> 0, at |-> 0, s |-> CandPool[c]]]]

RECURSIVE MappedSuggestionsAbort(_, _)
\* mutant of MappedSuggestions: the first suggestion that fails ends the loop
MappedSuggestionsAbort(d, ids) ==
    IF ids = <<>> THEN <<>>
    ELSE IF Placement[d][Head(ids)].valid /\ Placement[d][Head(ids)].at # 0
         THEN <<Placement[d][Head(ids)].s>> \o MappedSuggestionsAbort(d, Tail(ids))
         ELSE <<>>

\* mappedSuggestions for the response `ids` (indices into the pool)
MappedSuggestions(d, ids) ==
    LET placed == SelectSeq(ids, LAMBDA c : Placement[d][c].valid /\ Placement[d][c].at # 0)
    IN  [i \in 1..Len(placed) |-> Placement[d][placed[i]].s]

\* the loop `for (const s of scoredNew)` over the live document: every node is
\* read from doc as the loop has left it so far
\* mutant of cloneNode: the located node itself is handed on
cloneNodeAlias(el) == el

\* foundElement.cloneNode(true): a detached copy, pos = 0 marks a node that is
\* not in the document
cloneNode(el) == [el EXCEPT !.pos = 0]

\* the document after `node.innerHTML = ...` and the cleaning of node have
\* left node with the markup outer: only a node of the document changes it
WriteNode(doc, node, outer) ==
    IF node.pos = 0 THEN doc
    ELSE SubSeq(doc, 1, node.pos - 1) \o outer
         \o SubSeq(doc, MatchClose(doc, node.pos) + 1, Len(doc))

\* the body of the loop for candidate c over the document as it is now;
\* Placement[d][c] is this very mapping over the parsed article Docs[d]
MapOver(d, doc, c) ==
    IF doc = Docs[d] THEN Placement[d][c]
    ELSE [valid |-> TRUE] @@ MapSuggestion(AllParagraphs(doc), ScoreSuggestion(CandPool[c]))

\* the located node of the document as it is now
NodeOf(d, doc, k) == IF doc = Docs[d] THEN TempDoc[d][k] ELSE AllParagraphs(doc)[k]

RECURSIVE MapLoop(_, _, _, _)
\* validNew, scoredNew and the mapping loop for the response ids: the document
\* and mappedSuggestions when the loop ends
MapLoop(d, doc, ids, mappedSuggestions) ==
    IF ids = <<>> THEN [doc |-> doc, mapped |-> mappedSuggestions]
    ELSE IF ~IsValidNew(CandPool[Head(ids)])
         THEN MapLoop(d, doc, Tail(ids), mappedSuggestions)
         ELSE LET r == MapOver(d, doc, Head(ids))
              IN  IF r.at = 0
                  THEN MapLoop(d, doc, Tail(ids), mappedSuggestions)
                  ELSE MapLoop(d,
                               WriteNode(doc, cloneNode(NodeOf(d, doc, r.found)),
                                         r.s.paragraph_with_link),
                               Tail(ids), Append(mappedSuggestions, r.s))

\* ---------------------------------------------------- Deduplication Logic
RECURSIVE InsertByScoreTiesFirst(_, _)
\* mutant of InsertByScore: x goes before the elements of its own score
InsertByScoreTiesFirst(sorted, x) ==
    IF sorted = <<>> THEN <<x>>
    ELSE IF Head(sorted).internal_link_score > x.internal_link_score
         THEN <<Head(sorted)>> \o InsertByScoreTiesFirst(Tail(sorted), x)
         ELSE <<x>> \o sorted

RECURSIVE InsertByScore(_, _)
\* a stable insertion: x goes behind every element whose score is not lower
InsertByScore(sorted, x) ==
    IF sorted = <<>> THEN <<x>>
    ELSE IF Head(sorted).internal_link_score >= x.internal_link_score
         THEN <<Head(sorted)>> \o InsertByScore(Tail(sorted), x)
         ELSE <<x>> \o sorted

\* mutant of SortByScoreDesc: the merged list is taken in arrival order
SortByScoreNone(list) == list

RECURSIVE SortByScoreDesc(_)
\* [...].sort((a, b) => b.internal_link_score - a.internal_link_score), stable
SortByScoreDesc(list) ==
    IF list = <<>> THEN <<>>
    ELSE InsertByScore(SortByScoreDesc(SubSeq(list, 1, Len(list) - 1)), list[Len(list)])

RECURSIVE InsertByPosition(_, _, _)
InsertByPosition(h, sorted, x) ==
    IF sorted = <<>> THEN <<x>>
    ELSE IF indexOf(h, Head(sorted).original_paragraph) <= indexOf(h, x.original_paragraph)
         THEN <<Head(sorted)>> \o InsertByPosition(h, Tail(sorted), x)
         ELSE <<x>> \o sorted

RECURSIVE SortByPosition(_, _)
\* uniqueSuggestions.sort by the index of the paragraph in the article, stable
SortByPosition(h, list) ==
    IF list = <<>> THEN <<>>
    ELSE InsertByPosition(h, SortByPosition(h, SubSeq(list, 1, Len(list) - 1)), list[Len(list)])

\* mutant of AnchorKey: the anchor is compared as written
AnchorKeyRaw(s) == s.anchor_text

\* suggestion.anchor_text.toLowerCase().trim()
AnchorKey(s) == Trim(LowerSeq(s.anchor_text))

\* normalizeUrl(suggestion.target_url)
TargetKey(s) == normalizeUrl(s.target_url)

\* Math.max(0, newSuggestionStart - pos.end, pos.start - newSuggestionEnd)
Distance(start, end, pos) ==
    Max2(0, Max2(start - pos.end, pos.start - end))

\* mutant of IsTooClose: only overlapping spans are too close
IsTooCloseOverlapOnly(start, end, acceptedPositions) ==
    \E i \in DOMAIN acceptedPositions : Distance(start, end, acceptedPositions[i]) < 1

\* acceptedPositions.some(pos => distance < MIN_SUGGESTION_DISTANCE_CHARS)
IsTooClose(start, end, acceptedPositions) ==
    \E i \in DOMAIN acceptedPositions :
        Distance(start, end, acceptedPositions[i]) < MIN_SUGGESTION_DISTANCE_CHARS

RECURSIVE DedupLoopStop(_, _, _, _, _, _)
\* mutant of DedupLoop: the pass ends at the first candidate it rejects
DedupLoopStop(h, rest, uniqueSuggestions, seenAnchors, seenTargets, acceptedPositions) ==
    IF rest = <<>> THEN uniqueSuggestions
    ELSE LET suggestion == Head(rest)
             anchorKey == AnchorKey(suggestion)
             targetKey == TargetKey(suggestion)
             paragraphIndex == indexOf(h, suggestion.original_paragraph)
             newSuggestionStart == paragraphIndex
             newSuggestionEnd == paragraphIndex + Width(suggestion.original_paragraph)
             skip == \/ anchorKey \in seenAnchors
                     \/ targetKey \in seenTargets
                     \/ paragraphIndex = -1
                     \/ IsTooClose(newSuggestionStart, newSuggestionEnd, acceptedPositions)
         IN  IF skip
             THEN uniqueSuggestions
             ELSE DedupLoopStop(h, Tail(rest), Append(uniqueSuggestions, suggestion),
                                seenAnchors \cup {anchorKey}, seenTargets \cup {targetKey},
                                Append(acceptedPositions,
                                       [start |-> newSuggestionStart, end |-> newSuggestionEnd]))

RECURSIVE DedupLoop(_, _, _, _, _, _)
\* for (const suggestion of allCombined)
DedupLoop(h, rest, uniqueSuggestions, seenAnchors, seenTargets, acceptedPositions) ==
    IF rest = <<>> THEN uniqueSuggestions
    ELSE LET suggestion == Head(rest)
             anchorKey == AnchorKey(suggestion)
             targetKey == TargetKey(suggestion)
             paragraphIndex == indexOf(h, suggestion.original_paragraph)
             newSuggestionStart == paragraphIndex
             newSuggestionEnd == paragraphIndex + Width(suggestion.original_paragraph)
             skip == \/ anchorKey \in seenAnchors
                     \/ targetKey \in seenTargets
                     \/ paragraphIndex = -1
                     \/ IsTooClose(newSuggestionStart, newSuggestionEnd, acceptedPositions)
         IN  IF skip
             THEN DedupLoop(h, Tail(rest), uniqueSuggestions, seenAnchors, seenTargets,
                            acceptedPositions)
             ELSE DedupLoop(h, Tail(rest), Append(uniqueSuggestions, suggestion),
                            seenAnchors \cup {anchorKey}, seenTargets \cup {targetKey},
                            Append(acceptedPositions,
                                   [start |-> newSuggestionStart, end |-> newSuggestionEnd]))

\* the list processOutboundBatch returns for the article h
Deduplicate(h, existing, mapped) ==
    SortByPosition(h, DedupLoop(h, SortByScoreDesc(existing \o mapped), <<>>, {}, {}, <<>>))

\* Math.ceil(a / b) for positive b
CeilDiv(a, b) == (a + b - 1) \div b

\* mutant of dynamicLimit: without the cap of 12
dynamicLimitNoCap(wordCount, internalLinksCount, score) ==
    LET recommendedTotal == Max2(3, CeilDiv(wordCount, 200))
        slotsAvailable == Max2(0, recommendedTotal - internalLinksCount)
        limit == Max2(3, slotsAvailable)
    IN  IF score < 30 THEN Max2(3, (limit * 3) \div 10)
        ELSE IF score < 50 THEN Max2(3, (limit * 5) \div 10)
        ELSE IF score < 60 THEN Max2(4, (limit * 8) \div 10)
        ELSE limit

\* the suggestion limit of the Density Stats: Math.floor(x * 0.3), (x * 0.5),
\* (x * 0.8) are taken in integers
dynamicLimit(wordCount, internalLinksCount, score) ==
    LET recommendedTotal == Max2(3, CeilDiv(wordCount, 200))
        slotsAvailable == Max2(0, recommendedTotal - internalLinksCount)
        limit == Max2(3, Min2(slotsAvailable, 12))
    IN  IF score < 30 THEN Max2(3, (limit * 3) \div 10)
        ELSE IF score < 50 THEN Max2(3, (limit * 5) \div 10)
        ELSE IF score < 60 THEN Max2(4, (limit * 8) \div 10)
        ELSE limit

\* the in-content links of each article and the words of its reduced content
InContentLinks == [d \in DocIds |-> getInContentLinks(Docs[d], MainArticleUrl[d])]
ArticleWordCount == [d \in DocIds |-> WordCount(CleanArticleHtml[d])]

\* the record setDensityStats stores for article d and a readability score
DensityStats(d, score) ==
    LET wordCount == ArticleWordCount[d]
        internalLinksCount == Len(InContentLinks[d])
    IN  [wordCount |-> wordCount,
         existingLinksCount |-> internalLinksCount,
         recommendedTotal |-> Max2(3, CeilDiv(wordCount, 200)),
         suggestionsLimit |-> dynamicLimit(wordCount, internalLinksCount, score),
         readabilityScore |-> score]

\* the Density Stats block on the numbers st holds: its word count, its count
\* of in-content links and its readability score
ComputedStats(st) ==
    [st EXCEPT !.recommendedTotal = Max2(3, CeilDiv(st.wordCount, 200)),
               !.suggestionsLimit = dynamicLimit(st.wordCount, st.existingLinksCount,
                                                 st.readabilityScore)]

\* densityStats before any run: null
NoStats ==
    [wordCount |-> 0, existingLinksCount |-> 0, recommendedTotal |-> 0,
     suggestionsLimit |-> 0, readabilityScore |-> 0]

\* readability.score is computed from the article's text before the loop and
\* read only by the Density Stats; one score of each band of the limit
ReadabilityScores == {25, 45, 55, 70}

\* mutant of slice: the last n entries instead of the first
sliceLast(list, n) == SubSeq(list, Len(list) - Min2(n, Len(list)) + 1, Len(list))

\* Array.prototype.slice(0, n)
slice(list, n) == SubSeq(list, 1, Min2(n, Len(list)))

\* setError's message; "" stands for null
ErrorMessage == "An error occurred"

\* ------------------------------------------------------------------ state
VARIABLES
    docId,                \* the article under analysis (fullMainArticleHtml = Docs[docId])
    pc,                   \* "idle", "loop" (between batches), "await" (model call pending)
    batchNo,              \* batches started in this run
    allBatchSuggestions,  \* runAnalysis: the accepted list carried from batch to batch
    existingSuggestions,  \* processOutboundBatch: the list the current call received
    newSuggestions,       \* the model's response to the current call (pool indices)
    returned,             \* TRUE when the current call has returned allBatchSuggestions
    suggestions,          \* the suggestion list shown to the user (setSuggestions)
    error,                \* the message of setError, "" for null
    densityStats,         \* the record of setDensityStats, NoStats for null
    suggestionStatus,     \* index -> "accepted" / "rejected"; no key where undefined
    pipeline,             \* processOutboundBatch on one response: stage, validNew,
                          \* scoredNew, mappedSuggestions
    isAnalysisRunning,    \* useState(false): a run of runAnalysis has set it
    step,                 \* the wizard's step, useState(1)
    analysisConfig,       \* the checkboxes of the launch panel
    lastRunConfig,        \* configToRun of the latest run
    isMainArticleReady,   \* the main article has content
    parsedArticles,       \* the inventory
    isProcessingExisting, \* useState(false)
    sitemapFetch,         \* "idle" or "pending": fetchSitemapData awaited
    fileRead,             \* "idle" or "pending": FileReader.readAsText under way
    existingLinkAnalysis, \* the audited links of the latest run
    runsInFlight,         \* calls of runAnalysis that have not ended yet
    refiningIndex,        \* useState<number | null>(null), -1 for null
    isRefining,           \* useState(false): handleRefine awaits the model
    refinementSuggestions,\* the anchors the model proposed for refiningIndex
    inboundSuggestions,   \* the inbound rows: what each one's placement is
    analyzingPlacementId, \* useState<number | null>(null), -1 for null
    manualPasteIndex,     \* useState<number | null>(null), -1 for null
    manualPasteContent,   \* the text of the manual paste box
    lookups,              \* the placement lookups that have not settled yet
    fetchCall             \* one call of fetchWithProxyFallbacks

\* the state of the wizard around the pipeline, isAnalysisRunning apart
uiVars == <<step, analysisConfig, lastRunConfig, isMainArticleReady, parsedArticles,
            isProcessingExisting, sitemapFetch, fileRead, existingLinkAnalysis,
            runsInFlight>>

\* the state of the result panels' tools: refinement, inbound placement, fetch
panelVars == <<refiningIndex, isRefining, refinementSuggestions, inboundSuggestions,
               analyzingPlacementId, manualPasteIndex, manualPasteContent, lookups,
               fetchCall>>

vars == <<docId, pc, batchNo, allBatchSuggestions, existingSuggestions, newSuggestions,
          returned, suggestions, error, densityStats, suggestionStatus, pipeline,
          isAnalysisRunning, uiVars, panelVars>>

\* the responses a model call may give
Responses(d) == UNION {[1..n -> DocPool[d]] : n \in 0..MaxCands}

\* useState<Record<number, string>>({}): no suggestion has a status
NoStatus == [i \in {} |-> ""]

\* no response is being processed step by step
NoPipeline == [stage |-> "none", validNew |-> <<>>, scoredNew |-> <<>>, mappedSuggestions |-> <<>>]

\* the checkboxes as useState sets them
AllSelected == [outbound |-> TRUE, inbound |-> TRUE, existing |-> TRUE]

\* lastRunConfig before any run: null
NoConfig == [outbound |-> FALSE, inbound |-> FALSE, existing |-> FALSE]

\* the wizard at step 4 with the inventory loaded and nothing pending
UiInit ==
    /\ isAnalysisRunning = FALSE
    /\ step = 4
    /\ analysisConfig = AllSelected
    /\ lastRunConfig = NoConfig
    /\ isMainArticleReady = TRUE
    /\ parsedArticles = ParsedArticles
    /\ isProcessingExisting = FALSE
    /\ sitemapFetch = "idle"
    /\ fileRead = "idle"
    /\ existingLinkAnalysis = <<>>
    /\ runsInFlight = 0

\* no call of fetchWithProxyFallbacks has been made
NoFetch == [build |-> "none", i |-> 0, attempt |-> 0, contacted |-> <<>>,
            outcome |-> "none", response |-> "none", lastError |-> "none"]

\* the tools of the result panels as useState sets them
PanelInit ==
    /\ refiningIndex = -1
    /\ isRefining = FALSE
    /\ refinementSuggestions = <<>>
    /\ inboundSuggestions = <<>>
    /\ analyzingPlacementId = -1
    /\ manualPasteIndex = -1
    /\ manualPasteContent = <<>>
    /\ lookups = <<>>
    /\ fetchCall = NoFetch

Init ==
    /\ docId \in DocIds
    /\ pc = "idle"
    /\ batchNo = 0
    /\ allBatchSuggestions = <<>>
    /\ existingSuggestions = <<>>
    /\ newSuggestions = <<>>
    /\ returned = FALSE
    /\ suggestions = <<>>
    /\ error = ""
    /\ densityStats = NoStats
    /\ suggestionStatus = NoStatus
    /\ pipeline = NoPipeline
    /\ UiInit
    /\ PanelInit

\* runAnalysis (isIncremental = false) up to the batch loop
RunAnalysis ==
    /\ pc = "idle"
    /\ \E d \in DocIds : docId' = d
    /\ pc' = "loop"
    /\ batchNo' = 0
    /\ allBatchSuggestions' = <<>>
    /\ existingSuggestions' = <<>>
    /\ newSuggestions' = <<>>
    /\ returned' = FALSE
    /\ suggestions' = <<>>
    /\ error' = ""
    /\ densityStats' = NoStats
    /\ UNCHANGED <<suggestionStatus, pipeline>>
    /\ isAnalysisRunning' = TRUE
    /\ lastRunConfig' = analysisConfig
    /\ runsInFlight' = 1
    /\ UNCHANGED <<step, analysisConfig, isMainArticleReady, parsedArticles,
                   isProcessingExisting, sitemapFetch, fileRead, existingLinkAnalysis,
                   panelVars>>

\* mutant of CallBatch: the calls are started side by side, each with the
\* empty list the run began with
CallBatchAllAtOnce ==
    /\ pc \in {"loop", "await"}
    /\ batchNo < MaxBatches
    /\ pc' = "await"
    /\ batchNo' = batchNo + 1
    /\ existingSuggestions' = <<>>
    /\ newSuggestions' = <<>>
    /\ returned' = FALSE
    /\ UNCHANGED <<docId, allBatchSuggestions, suggestions, error, densityStats, suggestionStatus, pipeline>>
    /\ UNCHANGED <<isAnalysisRunning, uiVars, panelVars>>

\* one iteration of the batch loop up to the model call of processOutboundBatch
CallBatch ==
    /\ pc = "loop"
    /\ batchNo < MaxBatches
    /\ pc' = "await"
    /\ batchNo' = batchNo + 1
    /\ existingSuggestions' = allBatchSuggestions
    /\ newSuggestions' = <<>>
    /\ returned' = FALSE
    /\ UNCHANGED <<docId, allBatchSuggestions, suggestions, error, densityStats, suggestionStatus, pipeline>>
    /\ UNCHANGED <<isAnalysisRunning, uiVars, panelVars>>

\* the model answers; processOutboundBatch runs to its return and the loop
\* stores the returned list
BatchResponse ==
    /\ pc = "await"
    /\ \E ids \in Responses(docId) :
          /\ newSuggestions' = ids
          /\ allBatchSuggestions' =
                Deduplicate(Docs[docId], existingSuggestions, MappedSuggestions(docId, ids))
    /\ returned' = TRUE
    /\ pc' = "loop"
    /\ UNCHANGED <<docId, batchNo, existingSuggestions, suggestions, error, densityStats,
                   suggestionStatus, pipeline>>
    /\ UNCHANGED <<isAnalysisRunning, uiVars, panelVars>>

\* the model call rejects or extractJson throws: processOutboundBatch has no
\* handler, the exception leaves the loop and runAnalysis' catch reports it
BatchFail ==
    /\ pc = "await"
    /\ error' = ErrorMessage
    /\ pc' = "idle"
    /\ returned' = FALSE
    /\ UNCHANGED <<docId, batchNo, allBatchSuggestions, existingSuggestions, newSuggestions,
                   suggestions, densityStats, suggestionStatus, pipeline>>
    /\ isAnalysisRunning' = FALSE
    /\ runsInFlight' = 0
    /\ UNCHANGED <<step, analysisConfig, lastRunConfig, isMainArticleReady, parsedArticles,
                   isProcessingExisting, sitemapFetch, fileRead, existingLinkAnalysis,
                   panelVars>>

\* the loop ends: the inventory has no further batch; Density Stats, the sort
\* of allBatchSuggestions in place and setSuggestions of its first entries
FinishAnalysis ==
    /\ pc = "loop"
    /\ \E score \in ReadabilityScores : densityStats' = DensityStats(docId, score)
    /\ allBatchSuggestions' = SortByScoreDesc(allBatchSuggestions)
    /\ suggestions' = slice(allBatchSuggestions', densityStats'.suggestionsLimit)
    /\ pc' = "idle"
    /\ existingSuggestions' = <<>>
    /\ newSuggestions' = <<>>
    /\ returned' = FALSE
    /\ UNCHANGED <<docId, batchNo, error, suggestionStatus, pipeline>>
    /\ isAnalysisRunning' = FALSE
    /\ runsInFlight' = 0
    /\ UNCHANGED <<step, analysisConfig, lastRunConfig, isMainArticleReady, parsedArticles,
                   isProcessingExisting, sitemapFetch, fileRead, existingLinkAnalysis,
                   panelVars>>

Next == RunAnalysis \/ CallBatch \/ BatchResponse \/ BatchFail \/ FinishAnalysis

Spec == Init /\ [][Next]_vars

\* ----------------------------------------------------------- the review
\* String.prototype.replace(pattern, replacement) with a string pattern: the
\* first occurrence is replaced, a string without the pattern is left alone
replace(html, pattern, replacement) ==
    LET i == FirstIndex(html, pattern)
    IN  IF i = 0 \/ pattern = <<>> THEN html
        ELSE SubSeq(html, 1, i - 1) \o replacement \o SubSeq(html, i + Len(pattern), Len(html))

RECURSIVE FinalHtmlFromNotRejected(_, _, _, _)
\* mutant of FinalHtmlFrom: every suggestion that is not rejected is applied
FinalHtmlFromNotRejected(html, list, status, index) ==
    IF index >= Len(list) THEN html
    ELSE FinalHtmlFromNotRejected(
            IF ~(index \in DOMAIN status /\ status[index] = "rejected")
            THEN replace(html, list[index + 1].original_paragraph,
                         list[index + 1].paragraph_with_link)
            ELSE html,
            list, status, index + 1)

RECURSIVE FinalHtmlFrom(_, _, _, _)
\* suggestions.forEach((suggestion, index) => ...) from the 0-based index on
FinalHtmlFrom(html, list, status, index) ==
    IF index >= Len(list) THEN html
    ELSE FinalHtmlFrom(
            IF index \in DOMAIN status /\ status[index] = "accepted"
            THEN replace(html, list[index + 1].original_paragraph,
                         list[index + 1].paragraph_with_link)
            ELSE html,
            list, status, index + 1)

\* generateFinalHtml: mainArticleForPreview with the accepted suggestions applied
generateFinalHtml(mainArticleForPreview, list, status) ==
    FinalHtmlFrom(mainArticleForPreview, list, status, 0)

\* a whole run of runAnalysis over an inventory of one batch: the sorted lists
\* of survivors the responses of the model lead to
OneBatchRun ==
    [d \in DocIds |->
        {SortByScoreDesc(Deduplicate(Docs[d], <<>>, MappedSuggestions(d, ids))) :
            ids \in Responses(d)}]

\* mutant of LaunchPanel: the panel stays when there are results
LaunchPanelAlways ==
    /\ step = 4
    /\ ~isAnalysisRunning
    /\ error = ""

\* the launch panel with the Run Analysis button is rendered; inboundSuggestions
\* is never filled by runAnalysis and stays empty
LaunchPanel ==
    /\ step = 4
    /\ ~isAnalysisRunning
    /\ suggestions = <<>>
    /\ existingLinkAnalysis = <<>>
    /\ error = ""

\* a click on Run Analysis and runAnalysis from its reset to setSuggestions,
\* the model answering its one batch
Analyse ==
    /\ pc = "idle"
    /\ LaunchPanel
    /\ \E d \in DocIds : \E survivors \in OneBatchRun[d] : \E score \in ReadabilityScores :
          /\ docId' = d
          /\ densityStats' = DensityStats(d, score)
          /\ allBatchSuggestions' = survivors
          /\ suggestions' = slice(allBatchSuggestions', densityStats'.suggestionsLimit)
    /\ batchNo' = 1
    /\ error' = ""
    /\ UNCHANGED <<pc, existingSuggestions, newSuggestions, returned, suggestionStatus, pipeline>>
    /\ UNCHANGED <<isAnalysisRunning, uiVars, panelVars>>

\* handleAcceptSuggestion(index), from the Accept button of a displayed row;
\* the button is disabled once the row has a status
AcceptSuggestion ==
    /\ pc = "idle"
    /\ \E index \in 0..(Len(suggestions) - 1) :
          /\ index \notin DOMAIN suggestionStatus
          /\ suggestionStatus' =
                [i \in DOMAIN suggestionStatus \cup {index} |->
                    IF i = index THEN "accepted" ELSE suggestionStatus[i]]
    /\ UNCHANGED <<docId, pc, batchNo, allBatchSuggestions, existingSuggestions,
                   newSuggestions, returned, suggestions, error, densityStats, pipeline>>
    /\ UNCHANGED <<isAnalysisRunning, uiVars, panelVars>>

\* handleRejectSuggestion(index), from the Reject button of a displayed row
RejectSuggestion ==
    /\ pc = "idle"
    /\ \E index \in 0..(Len(suggestions) - 1) :
          /\ index \notin DOMAIN suggestionStatus
          /\ suggestionStatus' =
                [i \in DOMAIN suggestionStatus \cup {index} |->
                    IF i = index THEN "rejected" ELSE suggestionStatus[i]]
    /\ UNCHANGED <<docId, pc, batchNo, allBatchSuggestions, existingSuggestions,
                   newSuggestions, returned, suggestions, error, densityStats, pipeline>>
    /\ UNCHANGED <<isAnalysisRunning, uiVars, panelVars>>

ReviewNext == Analyse \/ AcceptSuggestion \/ RejectSuggestion

\* the review of the delivered suggestions, run after run
ReviewSpec == Init /\ [][ReviewNext]_vars

\* ------------------------------------ processOutboundBatch step by step
\* the fields the model is free to fill in: sub-scores inside and outside
\* 0..100, targets of the inventory and others, anchors of the article's text
FreeScores == {-20, -9, 0, 50, 86, 93, 100, 115}
FreeTargets == {urlPl, urlTeamSlash, urlFees, urlScript}
FreeAnchors == {wplans, wOur}

\* the valid suggestions of a response about the paragraph "Our plans are fair"
FreeCands ==
    {Cand(anchor, target, Str(TextPlansFair), Str(TextPlansFair), score, paa, "") :
        anchor \in FreeAnchors, target \in FreeTargets, score \in FreeScores, paa \in BOOLEAN}

\* a response of one valid suggestion has passed the validNew filter
PipelineInit ==
    /\ docId \in DocIds
    /\ pc = "idle"
    /\ batchNo = 0
    /\ allBatchSuggestions = <<>>
    /\ existingSuggestions = <<>>
    /\ newSuggestions = <<>>
    /\ returned = FALSE
    /\ suggestions = <<>>
    /\ error = ""
    /\ densityStats = NoStats
    /\ suggestionStatus = NoStatus
    /\ \E c \in FreeCands :
          /\ IsValidNew(c)
          /\ pipeline = [NoPipeline EXCEPT !.stage = "validNew", !.validNew = <<c>>]
    /\ UiInit
    /\ PanelInit

\* scoredNew = validNew.map(...)
ScoreNew ==
    /\ pipeline.stage = "validNew"
    /\ pipeline' = [pipeline EXCEPT
                       !.stage = "scoredNew",
                       !.scoredNew = [i \in DOMAIN pipeline.validNew |->
                                         ScoreSuggestion(pipeline.validNew[i])]]
    /\ UNCHANGED <<docId, pc, batchNo, allBatchSuggestions, existingSuggestions,
                   newSuggestions, returned, suggestions, error, densityStats,
                   suggestionStatus>>
    /\ UNCHANGED <<isAnalysisRunning, uiVars, panelVars>>

\* for (const s of scoredNew): locate, substitute, clean, push
MapScored ==
    /\ pipeline.stage = "scoredNew"
    /\ LET r == [i \in DOMAIN pipeline.scoredNew |->
                    MapSuggestion(TempDoc[docId], pipeline.scoredNew[i])]
           placed == SelectSeq([i \in DOMAIN r |-> i], LAMBDA i : r[i].at # 0)
       IN  pipeline' = [pipeline EXCEPT
                           !.stage = "mapped",
                           !.mappedSuggestions = [n \in DOMAIN placed |-> r[placed[n]].s]]
    /\ UNCHANGED <<docId, pc, batchNo, allBatchSuggestions, existingSuggestions,
                   newSuggestions, returned, suggestions, error, densityStats,
                   suggestionStatus>>
    /\ UNCHANGED <<isAnalysisRunning, uiVars, panelVars>>

PipelineNext == ScoreNew \/ MapScored

\* the steps of processOutboundBatch on every response of one suggestion
PipelineSpec == PipelineInit /\ [][PipelineNext]_vars

\* ------------------------------------------------ Density Stats alone
\* the numbers the block may meet: words of the reduced content, in-content
\* links, Flesch scores (the formula also gives scores below 0 and above 100)
WordCounts == {0, 1, 150, 200, 201, 450, 999, 1600, 2400, 2401, 3000, 5000}
LinkCounts == {0, 1, 2, 5, 10, 13, 30}
FleschScores == {-40, 0, 29, 30, 49, 50, 59, 60, 100, 121}

\* wordCount, internalLinksCount and readability.score are known, the limit is not
StatsInit ==
    /\ docId \in DocIds
    /\ pc = "idle"
    /\ batchNo = 0
    /\ allBatchSuggestions = <<>>
    /\ existingSuggestions = <<>>
    /\ newSuggestions = <<>>
    /\ returned = FALSE
    /\ suggestions = <<>>
    /\ error = ""
    /\ suggestionStatus = NoStatus
    /\ pipeline = NoPipeline
    /\ \E w \in WordCounts : \E l \in LinkCounts : \E r \in FleschScores :
          densityStats = [NoStats EXCEPT !.wordCount = w, !.existingLinksCount = l,
                                         !.readabilityScore = r]
    /\ UiInit
    /\ PanelInit

\* recommendedTotal, slotsAvailable, dynamicLimit and setDensityStats
SetDensityStats ==
    /\ densityStats.recommendedTotal = 0
    /\ densityStats' = ComputedStats(densityStats)
    /\ UNCHANGED <<docId, pc, batchNo, allBatchSuggestions, existingSuggestions,
                   newSuggestions, returned, suggestions, error, suggestionStatus,
                   pipeline>>
    /\ UNCHANGED <<isAnalysisRunning, uiVars, panelVars>>

StatsNext == SetDensityStats

\* the Density Stats block on every word count, link count and score
StatsSpec == StatsInit /\ [][StatsNext]_vars

\* ------------------------------------------------ the wizard around a run
\* what the wizard's handlers leave alone
batchVars == <<docId, allBatchSuggestions, existingSuggestions, newSuggestions, returned,
               suggestionStatus, pipeline, panelVars>>

\* the awaits of runAnalysis' try block in their order: the audit of the
\* existing links, the classification, the PAA lookup, a batch of the loop
Stages == <<"existing", "classify", "paa", "batch">>
StageIndex(p) == IF p = "client" THEN 0 ELSE CHOOSE k \in DOMAIN Stages : Stages[k] = p

\* the conditions on configToRun and the inventory under which an await is
\* reached; the data they also depend on (links found, cached results,
\* suitable candidates) is left open
Selected(config, k) ==
    CASE k = 1 -> config.existing
      [] k = 2 -> config.inbound \/ config.outbound
      [] k = 3 -> config.outbound
      [] k = 4 -> config.outbound /\ parsedArticles # <<>>

\* where the run may await next after the await of index from, "done" when
\* it reaches the end of the try block
NextStages(from) ==
    {Stages[k] : k \in {j \in (from + 1)..Len(Stages) : Selected(lastRunConfig, j)}}
        \cup {"done"}
        \cup (IF from = 4 /\ batchNo < MaxBatches THEN {"batch"} ELSE {})

\* the list setSuggestions may receive at the end of the batch loop
DeliveredLists == {<<>>, <<Placement[1][1].s>>}

\* mutant of StartRun: the error of the previous run is not cleared
StartRunKeepError(config) ==
    /\ runsInFlight < 2
    /\ suggestions' = <<>>
    /\ existingLinkAnalysis' = <<>>
    /\ densityStats' = NoStats
    /\ lastRunConfig' = config
    /\ isAnalysisRunning' = TRUE
    /\ pc' = "client"
    /\ batchNo' = 0
    /\ runsInFlight' = runsInFlight + 1
    /\ UNCHANGED <<error, step, analysisConfig, isMainArticleReady, parsedArticles,
                   isProcessingExisting, sitemapFetch, fileRead, batchVars>>

\* runAnalysis(undefined, false) from its first line to setIsAnalysisRunning(true)
\* and setCurrentPhase: no await on the way
StartRun(config) ==
    /\ runsInFlight < 2
    /\ error' = ""
    /\ suggestions' = <<>>
    /\ existingLinkAnalysis' = <<>>
    /\ densityStats' = NoStats
    /\ lastRunConfig' = config
    /\ isAnalysisRunning' = TRUE
    /\ pc' = "client"
    /\ batchNo' = 0
    /\ runsInFlight' = runsInFlight + 1
    /\ UNCHANGED <<step, analysisConfig, isMainArticleReady, parsedArticles,
                   isProcessingExisting, sitemapFetch, fileRead, batchVars>>

\* a checkbox of the launch panel
ToggleOption ==
    /\ LaunchPanel
    /\ \E type \in {"outbound", "inbound", "existing"} :
          analysisConfig' = [analysisConfig EXCEPT ![type] = ~@]
    /\ UNCHANGED <<pc, batchNo, suggestions, error, densityStats, isAnalysisRunning, step,
                   lastRunConfig, isMainArticleReady, parsedArticles, isProcessingExisting,
                   sitemapFetch, fileRead, existingLinkAnalysis, runsInFlight, batchVars>>

\* the Run Analysis button
ClickRunAnalysis ==
    /\ LaunchPanel
    /\ analysisConfig.outbound \/ analysisConfig.inbound \/ analysisConfig.existing
    /\ StartRun(analysisConfig)

\* the Retry button beside the error message
ClickRetry ==
    /\ step = 4
    /\ error # ""
    /\ StartRun(analysisConfig)

\* the Back button
ClickBack ==
    /\ ~(step = 1 \/ isAnalysisRunning)
    /\ step' = Max2(1, step - 1)
    /\ UNCHANGED <<pc, batchNo, suggestions, error, densityStats, isAnalysisRunning,
                   analysisConfig, lastRunConfig, isMainArticleReady, parsedArticles,
                   isProcessingExisting, sitemapFetch, fileRead, existingLinkAnalysis,
                   runsInFlight, batchVars>>

\* the Next button
ClickNext ==
    /\ step < 4
    /\ ~(IF step = 1 THEN ~isMainArticleReady
         ELSE IF step = 2 THEN Len(parsedArticles) = 0 ELSE FALSE)
    /\ step' = Min2(4, step + 1)
    /\ UNCHANGED <<pc, batchNo, suggestions, error, densityStats, isAnalysisRunning,
                   analysisConfig, lastRunConfig, isMainArticleReady, parsedArticles,
                   isProcessingExisting, sitemapFetch, fileRead, existingLinkAnalysis,
                   runsInFlight, batchVars>>

\* the textarea of step 1: the pasted article, empty or not
SetMainArticle ==
    /\ step = 1
    /\ \E ready \in BOOLEAN : isMainArticleReady' = ready
    /\ UNCHANGED <<pc, batchNo, suggestions, error, densityStats, isAnalysisRunning, step,
                   analysisConfig, lastRunConfig, parsedArticles, isProcessingExisting,
                   sitemapFetch, fileRead, existingLinkAnalysis, runsInFlight, batchVars>>

\* processAndSetExistingArticles: the articles of the content, or [] from its
\* catch when none is left after filtering or the content does not parse
ProcessedInventories == {ParsedArticles, <<>>}

\* the Fetch button of step 2: a cached sitemap is processed at once,
\* otherwise fetchSitemapData is awaited
ClickFetchSitemap ==
    /\ step = 2
    /\ ~isProcessingExisting
    /\ \/ /\ \E articles \in ProcessedInventories : parsedArticles' = articles
          /\ isProcessingExisting' = FALSE
          /\ UNCHANGED sitemapFetch
       \/ /\ isProcessingExisting' = TRUE
          /\ sitemapFetch' = "pending"
          /\ UNCHANGED parsedArticles
    /\ UNCHANGED <<pc, batchNo, suggestions, error, densityStats, isAnalysisRunning, step,
                   analysisConfig, lastRunConfig, isMainArticleReady, fileRead,
                   existingLinkAnalysis, runsInFlight, batchVars>>

\* fetchSitemapData resolves: the sitemap is processed; finally
SitemapFetched ==
    /\ sitemapFetch = "pending"
    /\ \E articles \in ProcessedInventories : parsedArticles' = articles
    /\ sitemapFetch' = "idle"
    /\ isProcessingExisting' = FALSE
    /\ UNCHANGED <<pc, batchNo, suggestions, error, densityStats, isAnalysisRunning, step,
                   analysisConfig, lastRunConfig, isMainArticleReady, fileRead,
                   existingLinkAnalysis, runsInFlight, batchVars>>

\* fetchSitemapData rejects: catch and finally
SitemapFailed ==
    /\ sitemapFetch = "pending"
    /\ parsedArticles' = <<>>
    /\ sitemapFetch' = "idle"
    /\ isProcessingExisting' = FALSE
    /\ UNCHANGED <<pc, batchNo, suggestions, error, densityStats, isAnalysisRunning, step,
                   analysisConfig, lastRunConfig, isMainArticleReady, fileRead,
                   existingLinkAnalysis, runsInFlight, batchVars>>

\* handleExistingArticlesFileUpload up to reader.readAsText
UploadInventoryFile ==
    /\ step = 2
    /\ fileRead = "idle"
    /\ isProcessingExisting' = TRUE
    /\ fileRead' = "pending"
    /\ UNCHANGED <<pc, batchNo, suggestions, error, densityStats, isAnalysisRunning, step,
                   analysisConfig, lastRunConfig, isMainArticleReady, parsedArticles,
                   sitemapFetch, existingLinkAnalysis, runsInFlight, batchVars>>

\* reader.onload
InventoryFileLoaded ==
    /\ fileRead = "pending"
    /\ \E articles \in ProcessedInventories : parsedArticles' = articles
    /\ fileRead' = "idle"
    /\ isProcessingExisting' = FALSE
    /\ UNCHANGED <<pc, batchNo, suggestions, error, densityStats, isAnalysisRunning, step,
                   analysisConfig, lastRunConfig, isMainArticleReady, sitemapFetch,
                   existingLinkAnalysis, runsInFlight, batchVars>>

\* handlePasteChange
PasteInventory ==
    /\ step = 2
    /\ \E articles \in ProcessedInventories : parsedArticles' = articles
    /\ UNCHANGED <<pc, batchNo, suggestions, error, densityStats, isAnalysisRunning, step,
                   analysisConfig, lastRunConfig, isMainArticleReady, isProcessingExisting,
                   sitemapFetch, fileRead, existingLinkAnalysis, runsInFlight, batchVars>>

\* the run leaves the try block by its end: Density Stats and setSuggestions
\* when the outbound block ran, then finally
CompleteRun(looped) ==
    /\ IF lastRunConfig.outbound
       THEN /\ \E score \in ReadabilityScores : densityStats' = DensityStats(docId, score)
            /\ \E list \in (IF looped THEN DeliveredLists ELSE {<<>>}) : suggestions' = list
       ELSE UNCHANGED <<densityStats, suggestions>>
    /\ pc' = "idle"
    /\ isAnalysisRunning' = FALSE
    /\ runsInFlight' = runsInFlight - 1
    /\ UNCHANGED <<batchNo, error>>

\* the run goes on to its next await, or to its end
GoOn(next, looped) ==
    IF next = "done" THEN CompleteRun(looped)
    ELSE /\ pc' = next
         /\ batchNo' = IF next = "batch" THEN batchNo + 1 ELSE batchNo
         /\ UNCHANGED <<suggestions, error, densityStats, isAnalysisRunning, runsInFlight>>

\* new GoogleGenAI(...) returns and the run enters its try block
ClientCreated ==
    /\ pc = "client"
    /\ \E next \in NextStages(0) : GoOn(next, FALSE)
    /\ UNCHANGED <<step, analysisConfig, lastRunConfig, isMainArticleReady, parsedArticles,
                   isProcessingExisting, sitemapFetch, fileRead, existingLinkAnalysis,
                   batchVars>>

\* new GoogleGenAI(...) throws: the statement stands before the try block, so
\* the promise of runAnalysis rejects and neither catch nor finally runs
ClientThrows ==
    /\ pc = "client"
    /\ pc' = "rejected"
    /\ runsInFlight' = runsInFlight - 1
    /\ UNCHANGED <<batchNo, suggestions, error, densityStats, isAnalysisRunning, step,
                   analysisConfig, lastRunConfig, isMainArticleReady, parsedArticles,
                   isProcessingExisting, sitemapFetch, fileRead, existingLinkAnalysis,
                   batchVars>>

\* an awaited model call resolves and the run goes on; the audit stores its
\* analysis
ModelCallReturns ==
    /\ pc \in {Stages[k] : k \in DOMAIN Stages}
    /\ IF pc = "existing"
       THEN \E analysis \in {<<>>, <<"link">>} : existingLinkAnalysis' = analysis
       ELSE UNCHANGED existingLinkAnalysis
    /\ \E next \in NextStages(StageIndex(pc)) : GoOn(next, pc = "batch")
    /\ UNCHANGED <<step, analysisConfig, lastRunConfig, isMainArticleReady, parsedArticles,
                   isProcessingExisting, sitemapFetch, fileRead, batchVars>>

\* an awaited model call rejects, or extractJson throws on its text: catch
\* and finally
ModelCallRejects ==
    /\ pc \in {Stages[k] : k \in DOMAIN Stages}
    /\ error' = ErrorMessage
    /\ pc' = "idle"
    /\ isAnalysisRunning' = FALSE
    /\ runsInFlight' = runsInFlight - 1
    /\ UNCHANGED <<batchNo, suggestions, densityStats, step, analysisConfig, lastRunConfig,
                   isMainArticleReady, parsedArticles, isProcessingExisting, sitemapFetch,
                   fileRead, existingLinkAnalysis, batchVars>>

\* the application as mounted: step 1, the inventory of the last session
\* restored from localStorage or none
WizardInit ==
    /\ docId = 1
    /\ pc = "idle"
    /\ batchNo = 0
    /\ allBatchSuggestions = <<>>
    /\ existingSuggestions = <<>>
    /\ newSuggestions = <<>>
    /\ returned = FALSE
    /\ suggestions = <<>>
    /\ error = ""
    /\ densityStats = NoStats
    /\ suggestionStatus = NoStatus
    /\ pipeline = NoPipeline
    /\ isAnalysisRunning = FALSE
    /\ step = 1
    /\ analysisConfig = AllSelected
    /\ lastRunConfig = NoConfig
    /\ isMainArticleReady = FALSE
    /\ parsedArticles \in ProcessedInventories
    /\ isProcessingExisting = FALSE
    /\ sitemapFetch = "idle"
    /\ fileRead = "idle"
    /\ existingLinkAnalysis = <<>>
    /\ runsInFlight = 0
    /\ PanelInit

\* the steps of a run that need no click
RunStep == ClientCreated \/ ClientThrows \/ ModelCallReturns \/ ModelCallRejects

WizardNext ==
    \/ SetMainArticle \/ ClickBack \/ ClickNext
    \/ ClickFetchSitemap \/ SitemapFetched \/ SitemapFailed
    \/ UploadInventoryFile \/ InventoryFileLoaded \/ PasteInventory
    \/ ToggleOption \/ ClickRunAnalysis \/ ClickRetry
    \/ ClientCreated \/ ClientThrows \/ ModelCallReturns \/ ModelCallRejects

\* the wizard under every interleaving of clicks and pending callbacks
WizardSpec == WizardInit /\ [][WizardNext]_vars

\* the same, every started step of a run being taken in the end: the
\* constructor returns or throws, each model call returns or rejects
WizardFairSpec == WizardSpec /\ WF_vars(RunStep)

\* ------------------------------------------------ the refinement of anchors
\* what the review leaves alone, the list and its statuses apart
runVars == <<docId, pc, batchNo, allBatchSuggestions, existingSuggestions, newSuggestions,
             returned, error, densityStats, pipeline, isAnalysisRunning, uiVars>>

\* the tools of the inbound panel and the fetch
placementVars == <<inboundSuggestions, analyzingPlacementId, manualPasteIndex,
                   manualPasteContent, lookups, fetchCall>>

\* the anchors the model may propose: any strings
RefinedAnchors == {wPlans, wfees}

\* json.options as the model may return it; <<>> stands for a JSON without options
RefinementOptions ==
    {<<>>} \cup {o \in RefinedAnchors \X RefinedAnchors : o[1] # o[2]}

\* paragraph_with_link.includes(target_url): the URL stands in a text run or
\* in the value of an attribute
IncludesUrl(h, url) ==
    \/ Includes(h, Str(url))
    \/ \E i \in DOMAIN h : \E a \in DOMAIN h[i].at : Includes(h[i].at[a].val, url)

\* where `>${oldAnchor}</a>` first stands in h: the index of the tag before
\* the anchor's text, 0 when there is none
AnchorEnd(h, oldAnchor) ==
    LET n == Len(oldAnchor)
        hits == {k \in DOMAIN h :
                    /\ IsTag(h[k])
                    /\ k + n + 1 <= Len(h)
                    /\ SubSeq(h, k + 1, k + n) = Str(oldAnchor)
                    /\ h[k + n + 1] = Close("a")}
    IN  IF hits = {} THEN 0 ELSE CHOOSE k \in hits : \A j \in hits : k <= j

\* paragraph_with_link as applyRefinement leaves it; the test on
\* split(oldAnchor) is implied by the pattern of the replace
RefinedParagraph(s, newAnchor) ==
    LET h == s.paragraph_with_link
        k == AnchorEnd(h, s.anchor_text)
    IN  IF IncludesUrl(h, s.target_url) /\ k # 0
        THEN SubSeq(h, 1, k) \o Str(newAnchor)
             \o SubSeq(h, k + Len(s.anchor_text) + 1, Len(h))
        ELSE h

\* the suggestion as applyRefinement leaves it
Refined(s, newAnchor) ==
    [s EXCEPT !.paragraph_with_link = RefinedParagraph(s, newAnchor),
              !.anchor_text = newAnchor]

\* handleRefine(index) up to its await, from the Refine button of a displayed
\* row; the button is disabled once the row has a status
HandleRefine ==
    /\ pc = "idle"
    /\ ~isRefining
    /\ \E index \in 0..(Len(suggestions) - 1) :
          /\ index \notin DOMAIN suggestionStatus
          /\ refiningIndex' = index
    /\ isRefining' = TRUE
    /\ refinementSuggestions' = <<>>
    /\ UNCHANGED <<suggestions, suggestionStatus, runVars, placementVars>>

\* the model answers handleRefine
RefineReturns ==
    /\ isRefining
    /\ \E options \in RefinementOptions :
          refinementSuggestions' = IF options # <<>> THEN options ELSE refinementSuggestions
    /\ isRefining' = FALSE
    /\ UNCHANGED <<refiningIndex, suggestions, suggestionStatus, runVars, placementVars>>

\* the model call of handleRefine rejects or extractJson throws
RefineRejects ==
    /\ isRefining
    /\ isRefining' = FALSE
    /\ UNCHANGED <<refiningIndex, refinementSuggestions, suggestions, suggestionStatus,
                   runVars, placementVars>>

\* the Cancel button of the refinement box
CancelRefine ==
    /\ refiningIndex # -1
    /\ refiningIndex' = -1
    /\ UNCHANGED <<isRefining, refinementSuggestions, suggestions, suggestionStatus,
                   runVars, placementVars>>

\* applyRefinement(index, newAnchor), from a click on an option of the list
\* shown under the row refiningIndex once the model has answered
ApplyRefinement ==
    /\ refiningIndex # -1
    /\ ~isRefining
    /\ (refiningIndex + 1) \in DOMAIN suggestions
    /\ \E o \in DOMAIN refinementSuggestions :
          suggestions' = [suggestions EXCEPT ![refiningIndex + 1] =
                             Refined(suggestions[refiningIndex + 1], refinementSuggestions[o])]
    /\ refiningIndex' = -1
    /\ refinementSuggestions' = <<>>
    /\ UNCHANGED <<isRefining, suggestionStatus, runVars, placementVars>>

RefineNext ==
    \/ Analyse \/ AcceptSuggestion \/ RejectSuggestion
    \/ HandleRefine \/ RefineReturns \/ RefineRejects \/ CancelRefine \/ ApplyRefinement

\* the review of the delivered suggestions with the refinement of anchors
RefineSpec == Init /\ [][RefineNext]_vars

\* ------------------------------------------- the inbound placement lookups
\* what the inbound panel leaves alone
reviewVars == <<suggestions, suggestionStatus, refiningIndex, isRefining,
                refinementSuggestions, fetchCall, runVars>>

\* the inbound rows a run has delivered
InboundRows == 2

\* lookups that may be pending together before the exploration stops
MaxLookups == 2

\* what the user may have typed into the manual paste box
PasteContents == {<<>>, sp, wok}

\* an inbound row as the run delivers it: no placement, no placementError
NewRow == [placement |-> FALSE, placementError |-> FALSE]

\* the rows with one lookup removed from the pending ones
Settled(k) == SubSeq(lookups, 1, k - 1) \o SubSeq(lookups, k + 1, Len(lookups))

\* the inbound-actions of row i are rendered: the row has no placement and
\* the manual paste box is not open on it
InboundActions(i) ==
    /\ (i + 1) \in DOMAIN inboundSuggestions
    /\ ~inboundSuggestions[i + 1].placement
    /\ manualPasteIndex # i

\* the manual paste box of row i is rendered
ManualPasteBox(i) ==
    /\ (i + 1) \in DOMAIN inboundSuggestions
    /\ ~inboundSuggestions[i + 1].placement
    /\ manualPasteIndex = i

\* handleFindInboundPlacement(index) up to its first await, from the button
\* Find Exact Placement, disabled while analyzingPlacementId is the row's index
ClickFindPlacement ==
    /\ Len(lookups) < MaxLookups
    /\ \E index \in 0..(InboundRows - 1) :
          /\ InboundActions(index)
          /\ analyzingPlacementId # index
          /\ analyzingPlacementId' = index
          /\ lookups' = Append(lookups, [index |-> index, kind |-> "find"])
    /\ UNCHANGED <<inboundSuggestions, manualPasteIndex, manualPasteContent, reviewVars>>

\* the button Manual Paste of a row
ClickManualPaste ==
    /\ \E i \in 0..(InboundRows - 1) :
          /\ InboundActions(i)
          /\ manualPasteIndex' = i
    /\ UNCHANGED <<inboundSuggestions, analyzingPlacementId, manualPasteContent, lookups,
                   reviewVars>>

\* the textarea of the manual paste box
TypePaste ==
    /\ \E i \in 0..(InboundRows - 1) : ManualPasteBox(i)
    /\ \E content \in PasteContents \ {manualPasteContent} : manualPasteContent' = content
    /\ UNCHANGED <<inboundSuggestions, analyzingPlacementId, manualPasteIndex, lookups,
                   reviewVars>>

\* the Cancel button of the manual paste box
CancelPaste ==
    /\ \E i \in 0..(InboundRows - 1) : ManualPasteBox(i)
    /\ manualPasteIndex' = -1
    /\ UNCHANGED <<inboundSuggestions, analyzingPlacementId, manualPasteContent, lookups,
                   reviewVars>>

\* handleManualPlacementAnalysis(index) up to its await, from the button
\* Analyze Paste
ClickAnalyzePaste ==
    /\ Len(lookups) < MaxLookups
    /\ Trim(manualPasteContent) # <<>>
    /\ \E index \in 0..(InboundRows - 1) :
          /\ ManualPasteBox(index)
          /\ analyzingPlacementId' = index
          /\ lookups' = Append(lookups, [index |-> index, kind |-> "manual"])
    /\ UNCHANGED <<inboundSuggestions, manualPasteIndex, manualPasteContent, reviewVars>>

\* a pending lookup finds its placement: the try block and finally
LookupSucceeds ==
    \E k \in DOMAIN lookups :
        /\ inboundSuggestions' =
              [inboundSuggestions EXCEPT ![lookups[k].index + 1] =
                  [placement |-> TRUE, placementError |-> FALSE]]
        /\ IF lookups[k].kind = "manual"
           THEN manualPasteIndex' = -1 /\ manualPasteContent' = <<>>
           ELSE UNCHANGED <<manualPasteIndex, manualPasteContent>>
        /\ analyzingPlacementId' = -1
        /\ lookups' = Settled(k)
        /\ UNCHANGED reviewVars

\* a pending lookup fails (the fetch, the model call or extractJson): catch
\* and finally
LookupFails ==
    \E k \in DOMAIN lookups :
        /\ inboundSuggestions' =
              [inboundSuggestions EXCEPT ![lookups[k].index + 1].placementError = TRUE]
        /\ analyzingPlacementId' = -1
        /\ lookups' = Settled(k)
        /\ UNCHANGED <<manualPasteIndex, manualPasteContent, reviewVars>>

\* the inbound tab after a run that delivered InboundRows rows
LookupInit ==
    /\ docId = 1
    /\ pc = "idle"
    /\ batchNo = 0
    /\ allBatchSuggestions = <<>>
    /\ existingSuggestions = <<>>
    /\ newSuggestions = <<>>
    /\ returned = FALSE
    /\ suggestions = <<>>
    /\ error = ""
    /\ densityStats = NoStats
    /\ suggestionStatus = NoStatus
    /\ pipeline = NoPipeline
    /\ UiInit
    /\ refiningIndex = -1
    /\ isRefining = FALSE
    /\ refinementSuggestions = <<>>
    /\ inboundSuggestions = [i \in 1..InboundRows |-> NewRow]
    /\ analyzingPlacementId = -1
    /\ manualPasteIndex = -1
    /\ manualPasteContent = <<>>
    /\ lookups = <<>>
    /\ fetchCall = NoFetch

LookupNext ==
    \/ ClickFindPlacement \/ ClickManualPaste \/ TypePaste \/ CancelPaste
    \/ ClickAnalyzePaste \/ LookupSucceeds \/ LookupFails

\* the inbound tab under every interleaving of clicks and pending lookups
LookupSpec == LookupInit /\ [][LookupNext]_vars

\* ------------------------------------------------ fetchWithProxyFallbacks
\* PROXIES.length, in src/unnamed/part_001 and in src/index.tsx alike
ProxyCount == 3

\* the two versions of the function
Builds == {"part_001", "index.tsx"}

\* the fetches of one turn of the loop: with the custom headers and without
\* them in part_001, a single one in index.tsx
Attempts(build) == IF build = "part_001" THEN 2 ELSE 1

\* what a fetch may bring: a response with response.ok, a response with
\* another status, an exception (network, CORS, the abort of the timeout)
FetchResults == {"ok", "status", "throws"}

\* mutant of AfterAttempt: any response is returned, whatever its status
AfterAttemptAnyResponse(call, result) ==
    LET seen == Append(call.contacted,
                       [proxy |-> call.i, attempt |-> call.attempt, result |-> result])
        last == call.attempt = Attempts(call.build)
        err == IF call.build = "part_001" /\ call.attempt = 2 THEN result ELSE call.lastError
    IN  IF result # "throws"
        THEN [call EXCEPT !.contacted = seen, !.outcome = "returned", !.response = result]
        ELSE IF ~last
        THEN [call EXCEPT !.contacted = seen, !.attempt = call.attempt + 1, !.lastError = err]
        ELSE IF call.i + 1 < ProxyCount
        THEN [call EXCEPT !.contacted = seen, !.i = call.i + 1, !.attempt = 1,
                          !.lastError = err]
        ELSE [call EXCEPT !.contacted = seen, !.i = call.i + 1, !.attempt = 1,
                          !.lastError = err, !.outcome = "thrown"]

\* the call from the settling of one fetch to the next await, to the return
\* or to the throw after the loop: `if (response.ok) return response`, else
\* the next attempt on the same proxy, else the next proxy; part_001 keeps in
\* lastError what its second attempt met
AfterAttempt(call, result) ==
    LET seen == Append(call.contacted,
                       [proxy |-> call.i, attempt |-> call.attempt, result |-> result])
        last == call.attempt = Attempts(call.build)
        err == IF call.build = "part_001" /\ call.attempt = 2 THEN result ELSE call.lastError
    IN  IF result = "ok"
        THEN [call EXCEPT !.contacted = seen, !.outcome = "returned", !.response = result]
        ELSE IF ~last
        THEN [call EXCEPT !.contacted = seen, !.attempt = call.attempt + 1, !.lastError = err]
        ELSE IF call.i + 1 < ProxyCount
        THEN [call EXCEPT !.contacted = seen, !.i = call.i + 1, !.attempt = 1,
                          !.lastError = err]
        ELSE [call EXCEPT !.contacted = seen, !.i = call.i + 1, !.attempt = 1,
                          !.lastError = err, !.outcome = "thrown"]

\* what a fetch leaves alone
fetchFrame == <<suggestions, suggestionStatus, refiningIndex, isRefining,
                refinementSuggestions, inboundSuggestions, analyzingPlacementId,
                manualPasteIndex, manualPasteContent, lookups, runVars>>

\* fetchWithProxyFallbacks(url) up to its first fetch
CallFetch ==
    /\ fetchCall.outcome # "pending"
    /\ \E build \in Builds :
          fetchCall' = [NoFetch EXCEPT !.build = build, !.attempt = 1, !.outcome = "pending"]
    /\ UNCHANGED fetchFrame

\* the awaited fetch resolves with a response
ProxyResponds ==
    /\ fetchCall.outcome = "pending"
    /\ \E result \in FetchResults \ {"throws"} : fetchCall' = AfterAttempt(fetchCall, result)
    /\ UNCHANGED fetchFrame

\* the awaited fetch rejects
ProxyThrows ==
    /\ fetchCall.outcome = "pending"
    /\ fetchCall' = AfterAttempt(fetchCall, "throws")
    /\ UNCHANGED fetchFrame

ProxyNext == CallFetch \/ ProxyResponds \/ ProxyThrows

\* calls of fetchWithProxyFallbacks, one after the other, the proxies
\* answering as they like
ProxySpec == Init /\ [][ProxyNext]_vars

\* ------------------------------------------------ the claims' vocabulary
Article == Docs[docId]
Range(f) == {f[i] : i \in DOMAIN f}

\* the suggestions the current call merged, already-accepted ones first
Combined == existingSuggestions \o MappedSuggestions(docId, newSuggestions)

\* the anchor text lower-cased and trimmed
NormAnchor(anchor) ==
    LET low == [i \in 1..Len(anchor) |-> toLowerCase(anchor[i])]
        first == {i \in DOMAIN low : low[i] # " "}
    IN  IF first = {} THEN <<>>
        ELSE SubSeq(low, CHOOSE i \in first : \A j \in first : i <= j,
                         CHOOSE i \in first : \A j \in first : i >= j)

\* what the claims say of one suggestion x: its anchor key, its normalized
\* target, its score and span(x) = [i, i + length(x.original_paragraph)), i
\* the first index of the paragraph in the article
View(x) ==
    LET i == indexOf(Article, x.original_paragraph)
    IN  [anchor |-> NormAnchor(x.anchor_text),
         target |-> normalizeUrl(x.target_url),
         score |-> x.internal_link_score,
         start |-> i,
         end |-> i + Width(x.original_paragraph),
         of |-> x]

\* every suggestion of the lists is one the pipeline made of a suggestion of
\* the pool; its view is the same for every list it stands in
PoolViews ==
    [d \in DocIds |-> [c \in PoolIds |->
        [anchor |-> NormAnchor(Placement[d][c].s.anchor_text),
         target |-> normalizeUrl(Placement[d][c].s.target_url),
         score |-> Placement[d][c].s.internal_link_score,
         start |-> indexOf(Docs[d], Placement[d][c].s.original_paragraph),
         end |-> indexOf(Docs[d], Placement[d][c].s.original_paragraph)
                    + Width(Placement[d][c].s.original_paragraph),
         of |-> Placement[d][c].s]]]

Views(list) ==
    [i \in DOMAIN list |->
        PoolViews[docId][CHOOSE c \in PoolIds : Placement[docId][c].s = list[i]]]

\* the gap between the closest edges of two spans
Gap(a, b) ==
    IF a.start - b.end > 0 THEN a.start - b.end
    ELSE IF b.start - a.end > 0 THEN b.start - a.end
    ELSE 0

SameAnchor(a, b) == a.anchor = b.anchor
SameTarget(a, b) == a.target = b.target
TooNear(a, b) == Gap(a, b) < MIN_SUGGESTION_DISTANCE_CHARS
Conflict(a, b) == SameAnchor(a, b) \/ SameTarget(a, b) \/ TooNear(a, b)

\* the placed suggestions of the response that are not in the returned list
LeftOut ==
    {Placement[docId][c].s : c \in {e \in Range(newSuggestions) : Placement[docId][e].at # 0}}
        \ Range(allBatchSuggestions)

\* C1: spatial separation of the accepted set: every two distinct suggestions
\* of the list processOutboundBatch returned have paragraph spans at least
\* 250 characters apart
Thm_C1_SpatialSeparation ==
    returned =>
        LET ret == Views(allBatchSuggestions)
        IN  \A i, j \in DOMAIN ret :
                i < j => Gap(ret[i], ret[j]) >= MIN_SUGGESTION_DISTANCE_CHARS

\* two suggestions were returned and a placed one was left out only for being
\* less than 250 characters from a returned one
Wit_C1_SpatialSeparation ==
    /\ returned
    /\ Len(allBatchSuggestions) >= 2
    /\ LET ret == Views(allBatchSuggestions)
       IN  \E t \in LeftOut :
              /\ \E i \in DOMAIN ret : TooNear(View(t), ret[i])
              /\ \A i \in DOMAIN ret :
                    ~SameAnchor(View(t), ret[i]) /\ ~SameTarget(View(t), ret[i])

\* C2: anchor uniqueness of the accepted set: no two distinct returned
\* suggestions have the same lower-cased, trimmed anchor text
Thm_C2_AnchorUniqueness ==
    returned =>
        LET ret == Views(allBatchSuggestions)
        IN  \A i, j \in DOMAIN ret : i < j => ~SameAnchor(ret[i], ret[j])

\* a placed suggestion was left out only because its anchor, written
\* differently, has the key of a returned one
Wit_C2_AnchorUniqueness ==
    /\ returned
    /\ LET ret == Views(allBatchSuggestions)
       IN  \E t \in LeftOut :
              /\ \E i \in DOMAIN ret :
                    SameAnchor(View(t), ret[i]) /\ t.anchor_text # ret[i].of.anchor_text
              /\ \A i \in DOMAIN ret :
                    ~SameTarget(View(t), ret[i]) /\ ~TooNear(View(t), ret[i])

\* the URLs of the pool and of the inventory, with a slash appended and lower-cased
Urls ==
    {CandPool[c].target_url : c \in PoolIds} \cup {ParsedArticles[i].url : i \in DOMAIN ParsedArticles}
UrlVariants == Urls \cup {u \o <<"/">> : u \in Urls} \cup {LowerSeq(u) : u \in Urls}

DropSlash(u) == IF u # <<>> /\ u[Len(u)] = "/" THEN SubSeq(u, 1, Len(u) - 1) ELSE u

\* two URLs that are equal once letter case is ignored and one trailing slash,
\* if there is one, is taken off each
CaseSlashEquivalent(u, v) == DropSlash(LowerSeq(u)) = DropSlash(LowerSeq(v))

\* such URLs normalize to the same value
NormalizesAlike ==
    \A u, v \in UrlVariants : CaseSlashEquivalent(u, v) => normalizeUrl(u) = normalizeUrl(v)

DisallowedTypes == {"img", "video", "audio", "iframe", "object", "embed", "picture", "svg",
                    "script", "style", "link", "meta", "input", "form", "button"}

HasDisallowed(h) == \E i \in DOMAIN h : IsTag(h[i]) /\ h[i].v \in DisallowedTypes
HasOtherAttribute(h) ==
    \E i \in DOMAIN h : \E a \in DOMAIN h[i].at : h[i].at[a].name # "href"

Thm_C10_HigherScoreWins ==
    returned =>
        LET ret == Views(allBatchSuggestions)
            all == Views(Combined)
            in == [k \in DOMAIN all |-> all[k].of \in Range(allBatchSuggestions)]
        IN  /\ \A a, b \in DOMAIN all :
                  ( /\ a # b
                    /\ TooNear(all[a], all[b])
                    /\ ~SameAnchor(all[a], all[b])
                    /\ ~SameTarget(all[a], all[b])
                    /\ \A k \in DOMAIN all :
                          (k # a /\ k # b)
                          => ~Conflict(all[k], all[a]) /\ ~Conflict(all[k], all[b]) )
                  => /\ in[a] # in[b]
                     /\ in[a] => all[a].score >= all[b].score
            /\ \A k \in DOMAIN all :
                  ~in[k] => \E q \in DOMAIN ret :
                               Conflict(ret[q], all[k]) /\ ret[q].score >= all[k].score

\* a pair conflicting only by distance went in, the lower-scored one first
Wit_C10_HigherScoreWins ==
    /\ returned
    /\ LET all == Views(Combined)
       IN  \E a, b \in DOMAIN all :
              /\ a < b
              /\ TooNear(all[a], all[b])
              /\ ~SameAnchor(all[a], all[b])
              /\ ~SameTarget(all[a], all[b])
              /\ \A k \in DOMAIN all :
                    (k # a /\ k # b) => ~Conflict(all[k], all[a]) /\ ~Conflict(all[k], all[b])
              /\ all[a].score < all[b].score
              /\ all[b].of \in Range(allBatchSuggestions)

\* the nodes of each document whose text contains the paragraph a suggestion
\* of the pool claims, as the model wrote it
ContainingClaimed ==
    [d \in DocIds |-> [c \in PoolIds |->
        {k \in DOMAIN TempDoc[d] :
            Includes(TempDoc[d][k].text, CandPool[c].original_paragraph)}]]

\* the claimed paragraph without its tags and outer white space
StrippedClaim(c) ==
    LET text == SelectSeq(CandPool[c].original_paragraph, LAMBDA t : ~IsTag(t))
        inked == {i \in DOMAIN text : text[i].v # " "}
    IN  IF inked = {} THEN <<>>
        ELSE SubSeq(text, CHOOSE i \in inked : \A j \in inked : i <= j,
                          CHOOSE i \in inked : \A j \in inked : i >= j)

ContainingStripped ==
    [d \in DocIds |-> [c \in PoolIds |->
        {k \in DOMAIN TempDoc[d] : Includes(TempDoc[d][k].text, StrippedClaim(c))}]]

\* node k is a block-level node of the set, and none of the set has less text
Tightest(d, k, nodes) ==
    /\ k \in nodes
    /\ TempDoc[d][k].tag \in {"p", "li", "td", "div"}
    /\ \A n \in nodes : Width(TempDoc[d][k].text) <= Width(TempDoc[d][n].text)

RemoveAt(seq, i) == SubSeq(seq, 1, i - 1) \o SubSeq(seq, i + 1, Len(seq))

\* the response's i-th suggestion failed before the merge: a field is
\* missing, no node holds its paragraph or its anchor could not be substituted
Unplaced(i) ==
    \/ ~Placement[docId][newSuggestions[i]].valid
    \/ Placement[docId][newSuggestions[i]].at = 0

\* the response's i-th suggestion was placed and then left out of the result
Dropped(i) ==
    /\ ~Unplaced(i)
    /\ Placement[docId][newSuggestions[i]].s \notin Range(allBatchSuggestions)

\* C9: a suggestion that fails at any stage is left out and changes nothing
\* for the others: one that fails before the merge is not returned and the
\* merge sees the same list as without it; for one that fails in the merge the
\* call returns what it would have returned without it; and every suggestion
\* that was placed and conflicts with no other merged suggestion is returned
Thm_C9_SilentExclusion ==
    returned =>
        /\ \A i \in DOMAIN newSuggestions :
              Unplaced(i) =>
                 /\ Placement[docId][newSuggestions[i]].s \notin Range(allBatchSuggestions)
                 /\ MappedSuggestions(docId, RemoveAt(newSuggestions, i))
                       = MappedSuggestions(docId, newSuggestions)
        /\ \A i \in DOMAIN newSuggestions :
              Dropped(i) =>
                 Deduplicate(Article, existingSuggestions,
                             MappedSuggestions(docId, RemoveAt(newSuggestions, i)))
                    = allBatchSuggestions
        /\ LET all == Views(Combined)
           IN  \A k \in DOMAIN all :
                  (\A n \in DOMAIN all : all[n].of # all[k].of => ~Conflict(all[n], all[k]))
                  => all[k].of \in Range(allBatchSuggestions)

\* a response whose first suggestion claims a paragraph no node contains and
\* whose later suggestion is newly returned
Wit_C9_SilentExclusion ==
    /\ returned
    /\ \E i, j \in DOMAIN newSuggestions :
          /\ i < j
          /\ Placement[docId][newSuggestions[i]].valid
          /\ Placement[docId][newSuggestions[i]].found = 0
          /\ Placement[docId][newSuggestions[j]].at # 0
          /\ Placement[docId][newSuggestions[j]].s \in Range(allBatchSuggestions)
          /\ Placement[docId][newSuggestions[j]].s \notin Range(existingSuggestions)

\* the anchor's characters stand at token i of the markup, in either case
OccursAt(inner, anchor, i) ==
    /\ i + Len(anchor) - 1 <= Len(inner)
    /\ \A j \in 1..Len(anchor) :
          /\ inner[i + j - 1].k = "ch"
          /\ toLowerCase(inner[i + j - 1].v) = toLowerCase(anchor[j])

\* token i of the markup lies between an <a> and its </a>
InsideLink(inner, i) ==
    Cardinality({j \in 1..(i - 1) : inner[j].k = "open" /\ inner[j].v = "a"})
        > Cardinality({j \in 1..(i - 1) : inner[j].k = "close" /\ inner[j].v = "a"})

FreeOccurrences(inner, anchor) ==
    {i \in DOMAIN inner : OccursAt(inner, anchor, i) /\ ~InsideLink(inner, i)}

\* C4: the link wraps the first occurrence of the anchor that is not inside
\* an existing link, and a suggestion whose anchor occurs only inside existing
\* links is dropped
Cex_C4_NoDoubleLinking ==
    returned =>
        \A c \in Range(newSuggestions) :
            Placement[docId][c].found # 0 =>
                LET el == TempDoc[docId][Placement[docId][c].found]
                    free == FreeOccurrences(el.inner, CandPool[c].anchor_text)
                    at == Placement[docId][c].at
                IN  /\ at # 0 => (at \in free /\ \A i \in free : at <= i)
                    /\ free = {} =>
                          (at = 0 /\ Placement[docId][c].s \notin Range(allBatchSuggestions))

\* the anchor's characters stand in the text exactly, letter case included
IncludesExactly(h, anchor) == Includes(SelectSeq(h, IsText), Str(anchor))

\* C6: a returned suggestion's anchor occurs exactly and case-sensitively both
\* in the reduced content of the article and in the text of its node
Cex_C6_AnchorVerification ==
    returned =>
        \A i \in DOMAIN allBatchSuggestions :
            /\ IncludesExactly(CleanArticleHtml[docId], allBatchSuggestions[i].anchor_text)
            /\ IncludesExactly(allBatchSuggestions[i].original_paragraph,
                               allBatchSuggestions[i].anchor_text)

\* the positions of the plain text where the anchor stands exactly
ExactOccurrences(inner, anchor) ==
    {i \in DOMAIN inner : MatchAt(inner, Str(anchor), i)}

\* the paragraph with the anchor at position i wrapped in a link to the target
WrappedParagraph(inner, anchor, target, i) ==
    <<Open("p", <<>>)>> \o SubSeq(inner, 1, i - 1)
        \o <<Open("a", <<Attr("href", target)>>)>> \o Str(anchor) \o <<Close("a")>>
        \o SubSeq(inner, i + Len(anchor), Len(inner)) \o <<Close("p")>>

\* C7: for a suggestion that claims the whole text of a plain paragraph in
\* which its anchor occurs exactly once, and that conflicts with no other
\* suggestion, the call returns the paragraph with that occurrence wrapped
Cex_C7_ExactInsertion ==
    returned =>
        \A c \in Range(newSuggestions) :
            \A k \in DOMAIN TempDoc[docId] :
                LET el == TempDoc[docId][k]
                    s == Placement[docId][c].s
                    occ == ExactOccurrences(el.inner, CandPool[c].anchor_text)
                    all == Views(Combined)
                IN  (/\ IsValidNew(CandPool[c])
                     /\ el.tag = "p"
                     /\ el.at = <<>>
                     /\ \A i \in DOMAIN el.inner : el.inner[i].k = "ch"
                     /\ el.inner = CandPool[c].original_paragraph
                     /\ Cardinality(occ) = 1
                     /\ \A n \in DOMAIN all : all[n].of # s => ~Conflict(all[n], View(s)))
                    => \E r \in Range(allBatchSuggestions) :
                          /\ r.anchor_text = CandPool[c].anchor_text
                          /\ r.target_url = CandPool[c].target_url
                          /\ r.paragraph_with_link =
                                WrappedParagraph(el.inner, CandPool[c].anchor_text,
                                                 CandPool[c].target_url,
                                                 CHOOSE i \in occ : TRUE)
\* ------------------------------------------------------------ delivery
\* runAnalysis has delivered: the run ended through setDensityStats and
\* setSuggestions, not through its catch
Delivered == pc = "idle" /\ densityStats # NoStats

\* C11: after a run the delivered list is the N highest-scored survivors of
\* deduplication, N the computed target count: it holds min(N, survivors)
\* distinct survivors, in descending score order, and no survivor left out
\* has a strictly higher score than a delivered one
Thm_C11_TopNByScore ==
    Delivered =>
        LET N == densityStats.suggestionsLimit
        IN  /\ N = dynamicLimit(densityStats.wordCount, densityStats.existingLinksCount,
                                densityStats.readabilityScore)
            /\ Len(suggestions) = Min2(N, Len(allBatchSuggestions))
            /\ Range(suggestions) \subseteq Range(allBatchSuggestions)
            /\ Cardinality(Range(suggestions)) = Len(suggestions)
            /\ \A x \in Range(allBatchSuggestions) \ Range(suggestions) :
                  \A y \in Range(suggestions) :
                      x.internal_link_score <= y.internal_link_score

\* more survivors than the target count: one is cut, and it scores strictly
\* below every delivered one
Wit_C11_TopNByScore ==
    /\ Delivered
    /\ Len(allBatchSuggestions) > densityStats.suggestionsLimit
    /\ Len(suggestions) = densityStats.suggestionsLimit
    /\ \E x \in Range(allBatchSuggestions) \ Range(suggestions) :
          \A y \in Range(suggestions) : x.internal_link_score < y.internal_link_score

\* ---------------------------------------------------- the greedy pass
\* the merged list of the current call in the order the resolver reads it
SortedCombined == SortByScoreDesc(Combined)

\* the places of SortedCombined the greedy pass admits: the paragraph stands
\* in the article and nothing admitted above it conflicts with it
Admitted ==
    LET v == Views(SortedCombined)
        admitted[k \in DOMAIN v] ==
            /\ v[k].start # -1
            /\ \A j \in 1..(k - 1) : admitted[j] => ~Conflict(v[j], v[k])
    IN  {k \in DOMAIN v : admitted[k]}

\* C12 as claimed: the returned list is a prefix of the merged list sorted by
\* descending score, so that below a rejected candidate nothing is admitted
Cex_C12_MaximalPrefix ==
    returned =>
        \E n \in 0..Len(SortedCombined) :
            /\ Len(allBatchSuggestions) = n
            /\ Range(allBatchSuggestions) = Range(SubSeq(SortedCombined, 1, n))

\* C12 amended: the returned list is the greedy selection of the sorted merged
\* list; a candidate is admitted exactly when its paragraph stands in the
\* article and it conflicts with no admitted candidate ranked above it,
\* whether or not a candidate above it was rejected
Thm_C12_GreedySelection ==
    returned =>
        /\ Len(allBatchSuggestions) = Cardinality(Admitted)
        /\ Range(allBatchSuggestions) = {SortedCombined[k] : k \in Admitted}

\* a candidate is rejected for a conflict and one ranked below it is admitted
Wit_C12_GreedySelection ==
    /\ returned
    /\ \E j, k, m \in DOMAIN SortedCombined :
          /\ j < k /\ k < m
          /\ j \in Admitted /\ k \notin Admitted /\ m \in Admitted
          /\ Conflict(Views(SortedCombined)[j], Views(SortedCombined)[k])
          /\ SortedCombined[k] \notin Range(allBatchSuggestions)
          /\ SortedCombined[m] \in Range(allBatchSuggestions)

\* ------------------------------------------------------ pipeline errors
\* the run ended in runAnalysis' catch
Failed == pc = "idle" /\ error # ""

\* C13: when the model call or the parsing of its response fails for one
\* batch, the error is reported and the suggestions the other batches of the
\* run validated are still delivered: a failed run that had accepted
\* suggestions delivers some of them
Cex_C13_ErrorKeepsValid ==
    (Failed /\ allBatchSuggestions # <<>>) =>
        /\ suggestions # <<>>
        /\ Range(suggestions) \subseteq Range(allBatchSuggestions)

\* ------------------------------------------------------ the batch loop
\* C14: the calls of processOutboundBatch of one run never overlap: a call
\* starts only while none is pending, after the call before it has returned,
\* and receives exactly the list that call returned (the empty list for the
\* first); the pass of a call resolves its candidates against that list, which
\* is still the complete accepted list when the call returns
Thm_C14_SequentialBatches ==
    [][ /\ (batchNo' = batchNo + 1) =>
              /\ pc = "loop" /\ pc' = "await"
              /\ IF batchNo = 0 THEN allBatchSuggestions = <<>> ELSE returned
              /\ existingSuggestions' = allBatchSuggestions
              /\ allBatchSuggestions' = allBatchSuggestions
        /\ (returned' /\ ~returned) =>
              /\ pc = "await" /\ pc' = "loop"
              /\ batchNo' = batchNo
              /\ existingSuggestions = allBatchSuggestions
              /\ allBatchSuggestions' =
                    Deduplicate(Article, allBatchSuggestions,
                                MappedSuggestions(docId, newSuggestions'))
      ]_vars

\* the second call has returned: it received the first call's accepted list
\* and added a suggestion to it
Wit_C14_SequentialBatches ==
    /\ returned
    /\ batchNo = 2
    /\ existingSuggestions # <<>>
    /\ Range(existingSuggestions) \subseteq Range(allBatchSuggestions)
    /\ Len(allBatchSuggestions) > Len(existingSuggestions)

\* ------------------------------------------------- the parsed document
\* C15: processOutboundBatch never modifies a node of the parsed document:
\* when the call returns the document is the markup it was parsed from, and
\* the loop over the live document has mapped every suggestion as it is
\* located, verified and substituted against the original markup
Thm_C15_DocumentReadOnly ==
    returned =>
        /\ MapLoop(docId, Article, newSuggestions, <<>>).doc = Article
        /\ MapLoop(docId, Article, newSuggestions, <<>>).mapped
              = MappedSuggestions(docId, newSuggestions)

\* a response with a substitution made before another candidate is located in
\* the same node, and one whose substitution fails
Wit_C15_DocumentReadOnly ==
    /\ returned
    /\ \E i, j \in DOMAIN newSuggestions :
          /\ i < j
          /\ Placement[docId][newSuggestions[i]].at # 0
          /\ Placement[docId][newSuggestions[j]].found
                = Placement[docId][newSuggestions[i]].found
    /\ \E i \in DOMAIN newSuggestions :
          /\ Placement[docId][newSuggestions[i]].found # 0
          /\ Placement[docId][newSuggestions[i]].at = 0

\* ------------------------------------------------------ existing links
\* the normalized addresses of the links each article already holds in its
\* content
LinkedTargets ==
    [d \in DocIds |->
        {normalizeUrl(getAttribute(Docs[d][InContentLinks[d][n]], "href")) :
            n \in DOMAIN InContentLinks[d]}]

\* C16: no delivered suggestion has a target whose normalized form equals the
\* normalized address of a link the article's content already holds
Cex_C16_AlreadyLinkedExcluded ==
    Delivered =>
        \A n \in DOMAIN suggestions :
            normalizeUrl(suggestions[n].target_url) \notin LinkedTargets[docId]

\* --------------------------------------------------------- the export
\* the suggestions of the displayed list that generateFinalHtml applies
AcceptedRows ==
    {n \in DOMAIN suggestions :
        (n - 1) \in DOMAIN suggestionStatus /\ suggestionStatus[n - 1] = "accepted"}

\* the exported markup
FinalHtml == generateFinalHtml(Article, suggestions, suggestionStatus)

\* the links the extractor reports for markup h of the article under analysis:
\* anchor text trimmed and normalized address
ReportedLinks(h) ==
    LET links == getInContentLinks(h, MainArticleUrl[docId])
    IN  {[anchor |-> Trim(Chars(textContent(h, links[n]))),
          url |-> normalizeUrl(getAttribute(h[links[n]], "href"))] : n \in DOMAIN links}

\* C17: after generateFinalHtml has applied an accepted suggestion, the
\* in-content links of the resulting markup include one whose anchor text is
\* the suggestion's and whose normalized address is that of its target
Cex_C17_InsertExtractRoundTrip ==
    (Delivered /\ AcceptedRows # {}) =>
        \A n \in AcceptedRows :
            [anchor |-> Trim(suggestions[n].anchor_text),
             url |-> normalizeUrl(suggestions[n].target_url)] \in ReportedLinks(FinalHtml)

\* ------------------------------------------------- the produced markup
\* an attribute that can run script or load a resource: an event handler, a
\* resource reference, or an address with the javascript: scheme
ScriptScheme == <<"j", "a", "v", "a", "s", "c", "r", "i", "p", "t", ":">>
ScriptCapable(a) ==
    \/ a.name \in {"onclick", "onerror", "onload", "onmouseover", "onfocus"}
    \/ a.name \in {"src", "srcset", "style", "srcdoc", "data", "action", "formaction"}
    \/ StartsWith(TrimLeft(LowerSeq(a.val)), ScriptScheme)

\* every tag is closed in order and none is closed that was not opened
WellFormed(h) ==
    /\ h = <<>> \/ Depths(h)[Len(h)] = 0
    /\ \A i \in DOMAIN h : Depths(h)[i] >= 0
    /\ \A i \in DOMAIN h : h[i].k = "open" => h[MatchClose(h, i)].v = h[i].v

\* C18: whatever target and anchor the model supplies, the markup the
\* insertion produces is well-formed and holds no attribute that can run
\* script or load a resource
Cex_C18_NoScriptCapableAttribute ==
    pipeline.stage = "mapped" =>
        \A n \in DOMAIN pipeline.mappedSuggestions :
            /\ WellFormed(pipeline.mappedSuggestions[n].paragraph_with_link)
            /\ \A i \in DOMAIN pipeline.mappedSuggestions[n].paragraph_with_link :
                  \A a \in DOMAIN pipeline.mappedSuggestions[n].paragraph_with_link[i].at :
                      ~ScriptCapable(pipeline.mappedSuggestions[n].paragraph_with_link[i].at[a])

\* ------------------------------------------------------------ the score
\* C19: whatever integer sub-score and flags the model supplies, the composite
\* score of every scored suggestion lies in 0..100
Cex_C19_ScoreRange ==
    \A n \in DOMAIN pipeline.scoredNew :
        /\ pipeline.scoredNew[n].internal_link_score >= 0
        /\ pipeline.scoredNew[n].internal_link_score <= MaxScore

\* ------------------------------------------------------- the target count
\* C20: the suggestion limit runAnalysis computes is within its minimum and
\* maximum, 3 <= dynamicLimit <= 12, for every word count, number of
\* in-content links and readability score
Thm_C20_LimitClamped ==
    densityStats.recommendedTotal # 0 =>
        /\ densityStats.suggestionsLimit >= 3
        /\ densityStats.suggestionsLimit <= 12
        /\ densityStats.suggestionsLimit
              = dynamicLimit(densityStats.wordCount, densityStats.existingLinksCount,
                             densityStats.readabilityScore)

\* the cap is at work: more than 12 slots are free and the limit is 12
Wit_C20_LimitClamped ==
    /\ densityStats.recommendedTotal - densityStats.existingLinksCount > 12
    /\ densityStats.readabilityScore >= 60
    /\ densityStats.suggestionsLimit = 12

\* ------------------------------------------------ low readability
\* C21: low readability only reduces the target count: the limit computed on
\* a readability score below 60 is at most the limit the same word count and
\* link count get on a score of 60 or more
Cex_C21_LowReadabilityReduces ==
    (densityStats.recommendedTotal # 0 /\ densityStats.readabilityScore < 60) =>
        densityStats.suggestionsLimit
           <= dynamicLimit(densityStats.wordCount, densityStats.existingLinksCount, 60)

\* ------------------------------------------------ eviction across batches
\* the already-accepted suggestions the current call received that are not
\* in the list it returned
Evicted == Range(existingSuggestions) \ Range(allBatchSuggestions)

\* C22: eviction only by a better conflicting suggestion: a suggestion the
\* previous batch returned is missing from the list the next batch returns
\* only if that batch admitted a newly placed suggestion with a strictly
\* higher score that conflicts with it; on equal scores the already-accepted
\* suggestion is kept
Thm_C22_EvictionByBetter ==
    returned =>
        LET old == Views(existingSuggestions)
            new == Views(MappedSuggestions(docId, newSuggestions))
        IN  \A e \in DOMAIN old :
               old[e].of \in Evicted =>
                  \E n \in DOMAIN new :
                     /\ new[n].of \in Range(allBatchSuggestions)
                     /\ new[n].of \notin Range(existingSuggestions)
                     /\ new[n].score > old[e].score
                     /\ Conflict(new[n], old[e])

\* the second batch evicted a suggestion of the first
Wit_C22_EvictionByBetter ==
    /\ returned
    /\ batchNo = 2
    /\ Evicted # {}

\* ------------------------------------------------ the exported markup
\* where the paragraph of the displayed row n stands in the analysed article
RowIndex(n) == FirstIndex(Article, suggestions[n].original_paragraph)

RECURSIVE SpliceRows(_, _)
\* the article with the paragraph of each row of rows replaced, where it
\* stands, by the row's linked paragraph; the rightmost row first, so that
\* the places of the others stay
SpliceRows(h, rows) ==
    IF rows = {} THEN h
    ELSE LET n == CHOOSE r \in rows : \A m \in rows : RowIndex(m) <= RowIndex(r)
             i == RowIndex(n)
         IN  SpliceRows(SubSeq(h, 1, i - 1) \o suggestions[n].paragraph_with_link
                            \o SubSeq(h, i + Len(suggestions[n].original_paragraph), Len(h)),
                        rows \ {n})

Cex_C24_RunEnds == isAnalysisRunning ~> ~isAnalysisRunning

\* ------------------------------------------------ one run at a time
\* C25: at most one analysis run is in flight: while isAnalysisRunning is
\* true, no click of Run Analysis, Retry, Back or Next starts a second
\* runAnalysis or leaves step 4, whatever model call is pending
Thm_C25_OneRunInFlight ==
    /\ [](runsInFlight <= 1 /\ (isAnalysisRunning => step = 4))
    /\ [][isAnalysisRunning => (step' = step /\ runsInFlight' <= runsInFlight)]_vars

\* a run awaits its second batch while a sitemap fetch started at step 2 is
\* still pending
Wit_C25_OneRunInFlight ==
    /\ isAnalysisRunning
    /\ runsInFlight = 1
    /\ pc = "batch"
    /\ batchNo = 2
    /\ sitemapFetch = "pending"

\* ------------------------------------------------ wizard gating
\* C28: whenever the wizard is at step 3 or 4 the inventory is non-empty, in
\* every interleaving of Back and Next with pending sitemap fetches and file
\* reads, and step stays within 1..4
Cex_C28_WizardGating ==
    /\ step \in 1..4
    /\ step \in {3, 4} => Len(parsedArticles) > 0

\* ------------------------------------------------ decisions and runs
\* C26: accept/reject decisions do not carry over between runs: the
\* suggestion at index i has a status after a step only if the user gave it in
\* that step or the same suggestion stood at i with that status before, so
\* that generateFinalHtml never applies a suggestion the user did not accept
Thm_C26_NoCarryOver ==
    [][\A i \in DOMAIN suggestionStatus' :
          /\ (i + 1) \in DOMAIN suggestions'
          /\ \/ i \notin DOMAIN suggestionStatus
             \/ /\ (i + 1) \in DOMAIN suggestions
                /\ suggestions'[i + 1] = suggestions[i + 1]
                /\ suggestionStatus'[i] = suggestionStatus[i]]_vars

\* a run has replaced the list and the user has accepted one of its
\* suggestions and rejected another
Wit_C26_NoCarryOver ==
    /\ Delivered
    /\ \E i, j \in DOMAIN suggestionStatus :
          /\ (i + 1) \in DOMAIN suggestions
          /\ (j + 1) \in DOMAIN suggestions
          /\ suggestionStatus[i] = "accepted"
          /\ suggestionStatus[j] = "rejected"

\* C27: after any sequence of applyRefinement operations no two displayed
\* suggestions have the same anchor text, compared trimmed and without case
Cex_C27_RefinementKeepsAnchorsUnique ==
    \A i, j \in DOMAIN suggestions :
        i # j => AnchorKey(suggestions[i]) # AnchorKey(suggestions[j])

\* C29: at most one inbound placement lookup is pending at any time, and
\* analyzingPlacementId is the index of a suggestion for as long as a lookup
\* of that suggestion is pending
Cex_C29_OneLookupInFlight ==
    /\ Len(lookups) <= 1
    /\ \A k \in DOMAIN lookups : analyzingPlacementId = lookups[k].index

\* the fetches of a build in the order of the listed proxies
AttemptOrder(build) ==
    [k \in 1..(ProxyCount * Attempts(build)) |->
        [proxy |-> (k - 1) \div Attempts(build), attempt |-> ((k - 1) % Attempts(build)) + 1]]

\* C30: the proxies are tried in their listed order (one fetch each in
\* index.tsx, two in part_001); the first response that is ok is returned and
\* nothing is contacted after it; no response that is not ok is returned; the
\* error is thrown only when every attempt on every proxy has failed
Thm_C30_ProxyFallbackOrder ==
    LET c == fetchCall
        n == Len(c.contacted)
    IN  c.build # "none" =>
          /\ n <= ProxyCount * Attempts(c.build)
          /\ \A k \in 1..n :
                /\ c.contacted[k].proxy = AttemptOrder(c.build)[k].proxy
                /\ c.contacted[k].attempt = AttemptOrder(c.build)[k].attempt
                /\ k < n => c.contacted[k].result # "ok"
          /\ c.outcome = "returned" <=> (n > 0 /\ c.contacted[n].result = "ok")
          /\ c.outcome = "returned" => c.response = "ok"
          /\ c.outcome = "thrown" =>
                /\ n = ProxyCount * Attempts(c.build)
                /\ \A k \in 1..n : c.contacted[k].result # "ok"

\* part_001 returns the response of the last proxy's first fetch after a
\* refused and a failed fetch on each of the proxies before it
Wit_C30_ProxyFallbackOrder ==
    /\ fetchCall.build = "part_001"
    /\ fetchCall.outcome = "returned"
    /\ Len(fetchCall.contacted) = 5
    /\ fetchCall.contacted[1].result = "status"
    /\ fetchCall.contacted[2].result = "throws"
    /\ fetchCall.contacted[5].proxy = 2

====
